---------------------------- MODULE Spec2Model ----------------------------
(***************************************************************************)
(* A model of the synchronization core of nerdbank-zcash-rust: the retry   *)
(* helpers (resilience.rs), the block cache (block_source.rs), the chunk   *)
(* iterator (backend_client.rs), the transparent gap-limit fill and the    *)
(* download/scan pipeline with its orchestrator (sync.rs), and the error   *)
(* conversion at the interop boundary (interop.rs, error.rs).              *)
(*                                                                         *)
(* Each component has its own variables and its own specification; a       *)
(* component's specification leaves the other components' variables at     *)
(* their initial values.                                                   *)
(***************************************************************************)
EXTENDS Integers, Sequences, FiniteSets, TLC

(***************************************************************************)
(* State                                                                   *)
(***************************************************************************)
\* resilience.rs
VARIABLES
    helper,         \* which helper runs: "retry" (webrequest_with_retry) or "logged" (webrequest_with_logged_retry)
    rpc,            \* position in the helper: "loop", "select_request", "sleep", "returned"
    failure_count,  \* the helper's local failure_count
    retry_token,    \* cancellation_token.is_cancelled()
    response,       \* outcome of the in-flight delegate future, NoResponse while it is pending
    timer_elapsed,  \* the backoff sleep's deadline has passed
    invocations,    \* number of delegate() calls so far
    sleeps,         \* number of backoff sleeps waited out
    on_retry_calls, \* number of on_retry callbacks (logged helper only)
    last_status,    \* status of the most recent failed attempt
    retry_result,   \* the helper's return value, Pending until it returns
    cancel_seen     \* history: where the helper was when the token fired

retryVars == <<helper, rpc, failure_count, retry_token, response, timer_elapsed,
               invocations, sleeps, on_retry_calls, last_status, retry_result, cancel_seen>>

\* block_source.rs
VARIABLES
    blocks,     \* BlockCache.blocks: HashMap<u32, CompactBlock>, a function from its keys
    cache_op    \* history: the last cache operation, its arguments, the map before it, its result

cacheVars == <<blocks, cache_op>>

\* backend_client.rs, the chunk iterator
VARIABLES
    chunk_range,  \* r: the suggested ScanRange being split
    acc,          \* the scan() accumulator: what of r is still to be yielded
    chunks,       \* the chunks yielded so far, in order
    chunk_done    \* the iterator has returned None

chunkVars == <<chunk_range, acc, chunks, chunk_done>>

\* sync.rs, transparent address discovery
VARIABLES
    taddrs,     \* the Vec<TransparentAddressSyncInfo> the discovery loop works on
    gap_call    \* history: the last fill_in_taddrs_to_gap_limit call: the list before it, what it returned

gapVars == <<taddrs, gap_call>>

\* sync.rs, the chain server and the wallet store as sync sees them
VARIABLES
    server_tip,         \* height of the server's latest block
    fork_height,        \* blocks at and above this height were replaced by a reorg; NoFork before any
    block_actions,      \* per height, the spends + outputs + actions of the block's transactions
    faults,             \* history: failures injected so far into requests and scans that are not retried
    permanent_failure,  \* history: a retried request failed on every attempt
    chain_grew,         \* history: the server's tip moved during the call
    wallet_birthday,    \* the wallet's birthday height
    wallet_queue,       \* the wallet store's scan queue: height -> priority, "Scanned" once scanned
    wallet_scanned,     \* the wallet store's block table: scanned height -> block hash
    truncations         \* history: the heights WalletDb::truncate_to_height was called with

envVars == <<server_tip, fork_height, block_actions, faults, permanent_failure, chain_grew,
             wallet_birthday, wallet_queue, wallet_scanned, truncations>>

\* sync.rs, sync()
VARIABLES
    continually,         \* the `continually` argument
    progress,            \* the `progress` argument is Some(sink)
    cancellation_token,  \* the sync-wide token has been cancelled
    sync_pc,             \* position in sync()
    sync_status,         \* sync()'s `status`: SyncUpdateData
    scan_ranges,         \* the suggested ranges still to be handled by the current loop
    sync_result,         \* what sync() returned, Pending while it runs
    cancel_observed,     \* history: the suspension point that took its cancelled branch
    mempool_messages     \* watch_mempool: the messages its stream has yielded in this call

orchVars == <<continually, progress, cancellation_token, sync_pc, sync_status, scan_ranges,
              sync_result, cancel_observed, mempool_messages>>

\* sync.rs, download_and_scan_blocks()
VARIABLES
    block_range,               \* the ScanRange being downloaded and scanned, NoRange outside a call
    channel,                   \* the mpsc channel: chunks sent and not yet received
    priorities_changed_token,  \* the child token has been cancelled by the scanner
    download_pc,               \* position in download_blocks
    download_after,            \* where send_blocks_and_chainstate was called from: "loop" or "exit"
    stream_next,               \* the height of the next block of the get_block_range stream
    streamed,                  \* history: the blocks the stream has yielded, in order
    chunks_sent,               \* history: the messages the downloader has sent, in order
    download_blocks_vec,       \* download_blocks' `blocks`: the chunk being accumulated
    accumulated_size,          \* download_blocks' `accumulated_size`
    downloader,                \* outcome of the downloader task, Pending while it runs
    scan_pc,                   \* position in the scanner task
    scan_range,                \* the chunk's ScanRange while the scanner handles a chunk
    scanner_status,            \* the scanner's `status`: Option<SyncUpdateData>
    priorities_changed,        \* the scanner's `priorities_changed`
    scan_outcome,              \* history: what the last scan_cached_blocks reported and scan_blocks returned
    scanner,                   \* outcome of the scanner task, Pending while it runs
    scanned_up_to              \* history: the end of the last chunk scan_blocks handled in this call

pipeVars == <<block_range, channel, priorities_changed_token, download_pc, download_after,
              stream_next, streamed, chunks_sent, download_blocks_vec, accumulated_size,
              downloader, scan_pc,
              scan_range, scanner_status, priorities_changed, scan_outcome, scanner,
              scanned_up_to>>

\* sync.rs, the progress sink (SyncUpdate) as sync() drives it
VARIABLES
    update_status_calls,        \* history: number of sink.update_status invocations
    scanner_status_calls,       \* history: those of them made by the scanner task
    report_transactions_calls,  \* history: number of sink.report_transactions invocations
    chunks_scanned              \* history: number of chunks scan_blocks has handled

sinkVars == <<update_status_calls, scanner_status_calls, report_transactions_calls,
              chunks_scanned>>

syncVars == <<envVars, orchVars, pipeVars, sinkVars>>

\* analysis.rs, get_user_balances()
VARIABLES
    balance_pc,     \* position in get_user_balances: "anchors", "rows", "summary", "returned"
    anchors,        \* the trusted and untrusted anchor heights, NoAnchors if the wallet has none
    balances,       \* get_user_balances' `balances`
    rows_read,      \* history: number of rows of GET_UNSPENT_NOTES read so far
    last_row,       \* history: the row read last, NoRow before the first
    user_balances   \* what get_user_balances returned, Pending while it runs

balanceVars == <<balance_pc, anchors, balances, rows_read, last_row, user_balances>>

\* send.rs, transmit_transaction()
VARIABLES
    send_pc,        \* position in transmit_transaction
    send_txid,      \* the `txid` argument
    submissions,    \* history: number of SendTransaction requests made to the server
    send_response,  \* the SendResponse received, NoResponse before
    send_result     \* what transmit_transaction returned, Pending while it runs

sendVars == <<send_pc, send_txid, submissions, send_response, send_result>>

\* interop.rs, the registry of cancellation tokens
VARIABLES
    CANCELLATION_TOKENS,    \* the map from cancellation id to token; a token is named by
                            \* the operation it was created for
    TOKEN_COUNTER,          \* the AtomicU32 the ids are drawn from
    operations,             \* per operation: its position and the id it was assigned
    token_cancelled,        \* per operation: whether its CancellationToken is cancelled
    cancel_call             \* history: the last call of cancel(id) and what it returned

cancelVars == <<CANCELLATION_TOKENS, TOKEN_COUNTER, operations, token_cancelled, cancel_call>>

\* grpc.rs, the shared gRPC channels
VARIABLES
    CHANNELS,           \* the map from server URI to the cached channel
    callers,            \* per caller of get_grpc_channel: position, `uri`, `channel`, result
    channels_created,   \* history: the URI of every channel connected, in order; a channel
                        \* is named by its place in this sequence
    destroyed,          \* history: the URIs destroy_channel was called for
    destroy_call        \* history: the last call of destroy_channel and what it returned

grpcVars == <<CHANNELS, callers, channels_created, destroyed, destroy_call>>

\* sync.rs, the transparent discovery loop of sync()
VARIABLES
    taddrs_to_scan,    \* the loop's `taddrs_to_scan`
    address_history,   \* the addresses, as <<account, index>>, with transactions in the queried heights
    latest_scanned,    \* the wallet store: address -> its last-synced height, None if never synced
    discover_pc,       \* position in the loop: "while", "for", "fill", "done", "failed"
    queries            \* history: the get_taddress_txids queries made, in order
discoverVars == <<taddrs_to_scan, address_history, latest_scanned, discover_pc, queries>>

vars == <<retryVars, cacheVars, chunkVars, gapVars, syncVars, balanceVars, sendVars,
          cancelVars, grpcVars, discoverVars>>

\* What the actions of one component leave alone
notRetry == <<cacheVars, chunkVars, gapVars, syncVars, balanceVars, sendVars, cancelVars,
              grpcVars, discoverVars>>
notCache == <<retryVars, chunkVars, gapVars, syncVars, balanceVars, sendVars, cancelVars,
              grpcVars, discoverVars>>
notChunk == <<retryVars, cacheVars, gapVars, syncVars, balanceVars, sendVars, cancelVars,
              grpcVars, discoverVars>>
notGap == <<retryVars, cacheVars, chunkVars, syncVars, balanceVars, sendVars, cancelVars,
            grpcVars, discoverVars>>
\* sync() has its own cache (`blocks` of cacheVars)
notSync == <<retryVars, cache_op, chunkVars, gapVars, balanceVars, sendVars, cancelVars,
             grpcVars, discoverVars>>
notBalance == <<retryVars, cacheVars, chunkVars, gapVars, syncVars, sendVars, cancelVars,
                grpcVars, discoverVars>>
notSend == <<retryVars, cacheVars, chunkVars, gapVars, syncVars, balanceVars, cancelVars,
             grpcVars, discoverVars>>
notCancel == <<retryVars, cacheVars, chunkVars, gapVars, syncVars, balanceVars, sendVars,
               grpcVars, discoverVars>>
notGrpc == <<retryVars, cacheVars, chunkVars, gapVars, syncVars, balanceVars, sendVars,
             cancelVars, discoverVars>>
\* the discovery loop works on `taddrs` of gapVars
notDiscover == <<retryVars, cacheVars, chunkVars, gap_call, syncVars, balanceVars, sendVars,
                 cancelVars, grpcVars>>

(***************************************************************************)
(* resilience.rs                                                           *)
(***************************************************************************)
ATTEMPT_LIMIT == 3

\* tonic status codes the delegate may fail with; "Cancelled" is tonic::Code::Cancelled
Codes == {"Unavailable", "Internal", "Cancelled"}

NoResponse == [tag |-> "NoResponse"]
Pending == [tag |-> "Pending"]
NoStatus == [code |-> "None", message |-> 0]

\* A status names its code and, as its message, the attempt that produced it.
Status(code, message) == [code |-> code, message |-> message]

\* Status::cancelled("Request cancelled"): the message is not that of any attempt
RequestCancelled == Status("Cancelled", -1)

OkResult(v) == [tag |-> "Ok", value |-> v]
ErrResult(status) == [tag |-> "Err", status |-> status]

\* Outcomes a delegate attempt (the n-th) may produce
Outcomes(n) == {OkResult(n)} \cup {ErrResult(Status(c, n)) : c \in Codes}

RetryInit ==
    /\ helper \in {"retry", "logged"}
    /\ rpc = "loop"
    /\ failure_count = 0
    /\ retry_token = FALSE
    /\ response = NoResponse
    /\ timer_elapsed = FALSE
    /\ invocations = 0
    /\ sleeps = 0
    /\ on_retry_calls = 0
    /\ last_status = NoStatus
    /\ retry_result = Pending
    /\ cancel_seen = "none"

\* A slip that gives up one failure early.
NoMoreRetriesEarly(fc) == fc = ATTEMPT_LIMIT - 1

\* resilience.rs:33 and :68, `if failure_count == ATTEMPT_LIMIT`
NoMoreRetries(fc) == fc = ATTEMPT_LIMIT

\* resilience.rs:65, `if status.code() == tonic::Code::Cancelled` (webrequest_with_retry only)
IsCancelledStatus(h, status) == h = "retry" /\ status.code = "Cancelled"

\* resilience.rs:73-78: webrequest_with_retry races the sleep against the token;
\* resilience.rs:39: webrequest_with_logged_retry awaits the sleep alone
SleepRacesToken(h) == h = "retry"

\* `delegate()` at the top of the loop (resilience.rs:25, :57): the request future is
\* created on every iteration, before select! polls either branch.
InvokeDelegate ==
    /\ UNCHANGED notRetry
    /\ rpc = "loop"
    /\ invocations' = invocations + 1
    /\ response' = NoResponse
    /\ rpc' = "select_request"
    /\ UNCHANGED <<helper, failure_count, retry_token, timer_elapsed, sleeps,
                   on_retry_calls, last_status, retry_result, cancel_seen>>

\* The server answers the in-flight request: the delegate future becomes ready.
\* A select! already woken by the token is polled before anything else arrives.
ResponseArrives ==
    /\ UNCHANGED notRetry
    /\ rpc = "select_request"
    /\ response = NoResponse
    /\ ~retry_token
    /\ \E o \in Outcomes(invocations) : response' = o
    /\ UNCHANGED <<helper, rpc, failure_count, retry_token, timer_elapsed, invocations,
                   sleeps, on_retry_calls, last_status, retry_result, cancel_seen>>

\* select! takes the `r = delegate() => r` branch and the match that follows
\* (resilience.rs:30-42 and :62-81).
RequestBranch ==
    /\ UNCHANGED notRetry
    /\ rpc = "select_request"
    /\ response # NoResponse
    /\ IF response.tag = "Ok"
       THEN /\ retry_result' = response
            /\ rpc' = "returned"
            /\ UNCHANGED <<failure_count, on_retry_calls, last_status, timer_elapsed>>
       ELSE /\ last_status' = response.status
            /\ IF IsCancelledStatus(helper, response.status)
               THEN /\ retry_result' = ErrResult(Status("Cancelled", response.status.message))
                    /\ rpc' = "returned"
                    /\ UNCHANGED <<failure_count, on_retry_calls, timer_elapsed>>
               ELSE IF NoMoreRetries(failure_count)
               THEN /\ retry_result' = ErrResult(response.status)
                    /\ rpc' = "returned"
                    /\ UNCHANGED <<failure_count, on_retry_calls, timer_elapsed>>
               ELSE /\ failure_count' = failure_count + 1
                    /\ on_retry_calls' = IF helper = "logged" THEN on_retry_calls + 1
                                                              ELSE on_retry_calls
                    /\ timer_elapsed' = FALSE
                    /\ rpc' = "sleep"
                    /\ UNCHANGED retry_result
    /\ response' = NoResponse
    /\ UNCHANGED <<helper, retry_token, invocations, sleeps, cancel_seen>>

\* select! takes the `cancellation_token.cancelled()` branch (resilience.rs:26-28, :58-60).
CancelledBranch ==
    /\ UNCHANGED notRetry
    /\ rpc = "select_request"
    /\ retry_token
    /\ retry_result' = ErrResult(RequestCancelled)
    /\ rpc' = "returned"
    /\ response' = NoResponse
    /\ UNCHANGED <<helper, failure_count, retry_token, timer_elapsed, invocations,
                   sleeps, on_retry_calls, last_status, cancel_seen>>

\* The backoff timer reaches its deadline.  Where the sleep is raced against the
\* token, a sleep already interrupted by the token never gets to its deadline.
TimerElapses ==
    /\ UNCHANGED notRetry
    /\ rpc = "sleep"
    /\ ~timer_elapsed
    /\ ~(SleepRacesToken(helper) /\ retry_token)
    /\ timer_elapsed' = TRUE
    /\ UNCHANGED <<helper, rpc, failure_count, retry_token, response, invocations,
                   sleeps, on_retry_calls, last_status, retry_result, cancel_seen>>

\* tokio::time::sleep(DELAY_BETWEEN_RETRIES) completes (resilience.rs:39, :74).
SleepDone ==
    /\ UNCHANGED notRetry
    /\ rpc = "sleep"
    /\ timer_elapsed
    /\ sleeps' = sleeps + 1
    /\ rpc' = "loop"
    /\ UNCHANGED <<helper, failure_count, retry_token, response, timer_elapsed,
                   invocations, on_retry_calls, last_status, retry_result, cancel_seen>>

\* The token wins the race against the sleep (resilience.rs:75-77).
SleepCancelled ==
    /\ UNCHANGED notRetry
    /\ rpc = "sleep"
    /\ SleepRacesToken(helper)
    /\ retry_token
    /\ retry_result' = ErrResult(RequestCancelled)
    /\ rpc' = "returned"
    /\ UNCHANGED <<helper, failure_count, retry_token, response, timer_elapsed,
                   invocations, sleeps, on_retry_calls, last_status, cancel_seen>>

\* The caller fires the cancellation token while the helper runs.
FireRetryToken ==
    /\ UNCHANGED notRetry
    /\ rpc # "returned"
    /\ ~retry_token
    /\ retry_token' = TRUE
    /\ cancel_seen' = IF rpc = "sleep" /\ ~timer_elapsed THEN "sleep"
                      ELSE IF rpc = "select_request" /\ response = NoResponse THEN "in_flight"
                      ELSE "other"
    /\ UNCHANGED <<helper, rpc, failure_count, response, timer_elapsed, invocations,
                   sleeps, on_retry_calls, last_status, retry_result>>

RetryNext ==
    \/ InvokeDelegate
    \/ ResponseArrives
    \/ RequestBranch
    \/ CancelledBranch
    \/ TimerElapses
    \/ SleepDone
    \/ SleepCancelled
    \/ FireRetryToken

(***************************************************************************)
(* block_source.rs                                                         *)
(***************************************************************************)
\* The largest block height of the model.  Block heights are BlockHeight values that a
\* half-open interval of heights (a ScanRange, a with_blocks request) can contain, so
\* they lie below u32::MAX.
MaxHeight == 3

\* The longest vector given to insert_range
MaxInsert == 2

\* u32::MAX of the model, just above the largest block height
U32Max == MaxHeight + 1

U32Mod == U32Max + 1

Heights == 0 .. MaxHeight

\* The u32 values: cache keys and the height arguments of the cache's operations
Keys == 0 .. U32Max

\* What tells two blocks of the same height apart (hash, payload)
Hashes == {"a", "b"}

CompactBlock == [height : Heights, hash : Hashes]

EmptyCache == << >>

\* Option::None for an optional height or limit
None == -1

\* `x as u32`
AsU32(x) == x % U32Mod

\* u32::saturating_add
SaturatingAdd(a, b) == IF a + b > U32Max THEN U32Max ELSE a + b

\* A slip that keys the block by its height plus one.
insert_off_by_one(b, block) ==
    [k \in DOMAIN b \cup {AsU32(block.height + 1)} |->
        IF k = AsU32(block.height + 1) THEN block ELSE b[k]]

\* BlockCache::insert: self.blocks.insert(block.height as u32, block)
insert(b, block) ==
    [k \in DOMAIN b \cup {AsU32(block.height)} |->
        IF k = AsU32(block.height) THEN block ELSE b[k]]

\* BlockCache::insert_range: for block in blocks { self.insert(block) }
RECURSIVE insert_range(_, _)
insert_range(b, vec) ==
    IF vec = << >> THEN b
    ELSE insert_range(insert(b, Head(vec)), Tail(vec))

\* BlockCache::remove: self.blocks.remove(&height)
remove(b, height) == [k \in DOMAIN b \ {height} |-> b[k]]

\* A slip that takes the range as closed: start..=end.
RECURSIVE remove_range_inclusive(_, _, _)
remove_range_inclusive(b, start, end) ==
    IF start > end THEN b
    ELSE remove_range_inclusive(remove(b, start), start + 1, end)

\* A slip that stops one height short: start..end - 1.
RECURSIVE remove_range_short(_, _, _)
remove_range_short(b, start, end) ==
    IF start + 1 >= end THEN b
    ELSE remove_range_short(remove(b, start), start + 1, end)

\* BlockCache::remove_range: for height in start..end { self.remove(height) }
RECURSIVE remove_range(_, _, _)
remove_range(b, start, end) ==
    IF start >= end THEN b
    ELSE remove_range(remove(b, start), start + 1, end)

\* A slip that drops the limit's own height too: retain(|k, _| k < &limit).
truncate_below_height(b, block_height) ==
    [k \in {x \in DOMAIN b : x < block_height} |-> b[k]]

\* BlockCache::truncate_to_height: self.blocks.retain(|k, _| k <= &limit)
truncate_to_height(b, block_height) ==
    [k \in {x \in DOMAIN b : x <= block_height} |-> b[k]]

\* The while loop of with_blocks, from `head` with the rows delivered so far.
RECURSIVE with_blocks_loop(_, _, _, _)
with_blocks_loop(b, head, max_exclusive, rows) ==
    IF ~(head < max_exclusive) THEN [tag |-> "Ok", rows |-> rows]
    ELSE IF head \notin DOMAIN b
         THEN [tag |-> "BlockNotFound", height |-> head, rows |-> rows]
         ELSE with_blocks_loop(b, head + 1, max_exclusive, Append(rows, b[head]))

\* A slip that takes the end of the interval as inclusive: while head <= max_exclusive.
with_blocks_inclusive(b, from_height, limit) ==
    LET head == IF from_height = None THEN 0 ELSE from_height
        max_exclusive == SaturatingAdd(head, AsU32(IF limit = None THEN U32Max ELSE limit))
    IN with_blocks_loop(b, head, max_exclusive + 1, << >>)

\* A slip that ends the rows at the first absent height instead of failing there.
with_blocks_ending_at_gap(b, from_height, limit) ==
    LET head == IF from_height = None THEN 0 ELSE from_height
        max_exclusive == SaturatingAdd(head, AsU32(IF limit = None THEN U32Max ELSE limit))
    IN [tag |-> "Ok", rows |-> with_blocks_loop(b, head, max_exclusive, << >>).rows]

\* BlockSource::with_blocks for a callback that accepts every row
with_blocks(b, from_height, limit) ==
    LET head == IF from_height = None THEN 0 ELSE from_height
        max_exclusive == SaturatingAdd(head, AsU32(IF limit = None THEN U32Max ELSE limit))
    IN with_blocks_loop(b, head, max_exclusive, << >>)

\* Vectors of at most n blocks
RECURSIVE Vecs(_)
Vecs(n) ==
    IF n = 0 THEN {<< >>}
    ELSE Vecs(n - 1) \cup {Append(v, blk) : v \in {w \in Vecs(n - 1) : Len(w) = n - 1},
                                            blk \in CompactBlock}

\* BlockCache::new(): an empty map
CacheIdle ==
    /\ blocks = EmptyCache
    /\ cache_op = [name |-> "new"]

\* The maps a cache can hold: every block is kept under its own height
Caches ==
    UNION {{[k \in S |-> [height |-> k, hash |-> f[k]]] : f \in [S -> Hashes]} :
              S \in SUBSET Heights}

\* A cache with any content, before the operation under study
CacheInit ==
    /\ blocks \in Caches
    /\ cache_op = [name |-> "new"]

CacheInsertRange ==
    /\ UNCHANGED notCache
    /\ cache_op.name = "new"
    /\ \E vec \in Vecs(MaxInsert) :
        /\ blocks' = insert_range(blocks, vec)
        /\ cache_op' = [name |-> "insert_range", vec |-> vec, before |-> blocks]

CacheRemoveRange ==
    /\ UNCHANGED notCache
    /\ cache_op.name = "new"
    /\ \E start \in Keys, end \in Keys :
        /\ blocks' = remove_range(blocks, start, end)
        /\ cache_op' = [name |-> "remove_range", start |-> start, end |-> end,
                        before |-> blocks]

CacheTruncateToHeight ==
    /\ UNCHANGED notCache
    /\ cache_op.name = "new"
    /\ \E h \in Keys :
        /\ blocks' = truncate_to_height(blocks, h)
        /\ cache_op' = [name |-> "truncate_to_height", height |-> h, before |-> blocks]

CacheWithBlocks ==
    /\ UNCHANGED notCache
    /\ cache_op.name = "new"
    /\ \E from_height \in Keys \cup {None}, limit \in Keys \cup {None} :
        /\ blocks' = blocks
        /\ cache_op' = [name |-> "with_blocks", from_height |-> from_height,
                        limit |-> limit, before |-> blocks,
                        result |-> with_blocks(blocks, from_height, limit)]

CacheNext ==
    \/ CacheInsertRange
    \/ CacheRemoveRange
    \/ CacheTruncateToHeight
    \/ CacheWithBlocks

(***************************************************************************)
(* backend_client.rs: the chunk iterator of sync                           *)
(***************************************************************************)

\* BATCH_SIZE (10_000 in the source), scaled down
BATCH_SIZE == 2

\* u32::MAX for the heights of scan ranges, scaled down
MaxEnd == 7

\* ScanPriority, in ascending order
Priorities == {"Historic", "ChainTip", "Verify"}

\* ScanRange::from_parts(start..end, priority)
ScanRange(start, end, priority) == [start |-> start, end |-> end, priority |-> priority]

\* ScanRange::is_empty: the block range start..end holds no height
IsEmptyRange(r) == ~(r.start < r.end)

\* ScanRange::len
RangeLen(r) == IF r.start < r.end THEN r.end - r.start ELSE 0

\* BlockHeight + u32, which saturates at u32::MAX
BlockHeightAdd(h, n) == IF h + n > MaxEnd THEN MaxEnd ELSE h + n

\* ScanRange::split_at(p): both halves when p lies strictly inside the range
CanSplitAt(r, p) == r.start < p /\ p < r.end

\* A slip that makes every batch one height too long.
SplitPointTooFar(r) == BlockHeightAdd(r.start, BATCH_SIZE + 1)

\* acc.block_range().start + BATCH_SIZE
SplitPoint(r) == BlockHeightAdd(r.start, BATCH_SIZE)

\* The ranges the wallet suggests: start <= end
ScanRanges ==
    {ScanRange(s, e, p) : s \in 0 .. MaxEnd, e \in 0 .. MaxEnd, p \in Priorities}

ChunkInit ==
    /\ chunk_range \in {r \in ScanRanges : r.start <= r.end}
    /\ acc = chunk_range
    /\ chunks = << >>
    /\ chunk_done = FALSE

\* The closure is called with an empty accumulator: `if acc.is_empty() { None }`
ChunkNone ==
    /\ UNCHANGED notChunk
    /\ ~chunk_done
    /\ IsEmptyRange(acc)
    /\ chunk_done' = TRUE
    /\ UNCHANGED <<chunk_range, acc, chunks>>

\* `else if let Some((cur, next)) = acc.split_at(..) { *acc = next; Some(cur) }`
ChunkSplit ==
    /\ UNCHANGED notChunk
    /\ ~chunk_done
    /\ ~IsEmptyRange(acc)
    /\ CanSplitAt(acc, SplitPoint(acc))
    /\ chunks' = Append(chunks, ScanRange(acc.start, SplitPoint(acc), acc.priority))
    /\ acc' = ScanRange(SplitPoint(acc), acc.end, acc.priority)
    /\ UNCHANGED <<chunk_range, chunk_done>>

\* `else { let cur = acc.clone(); *acc = from_parts(end..end, priority); Some(cur) }`
ChunkLast ==
    /\ UNCHANGED notChunk
    /\ ~chunk_done
    /\ ~IsEmptyRange(acc)
    /\ ~CanSplitAt(acc, SplitPoint(acc))
    /\ chunks' = Append(chunks, acc)
    /\ acc' = ScanRange(acc.end, acc.end, acc.priority)
    /\ UNCHANGED <<chunk_range, chunk_done>>

ChunkNext ==
    \/ ChunkNone
    \/ ChunkSplit
    \/ ChunkLast

\* The iterator before it is created, for the specifications of the other components
ChunkIdle ==
    /\ chunk_range = ScanRange(0, 0, "Historic")
    /\ acc = chunk_range
    /\ chunks = << >>
    /\ chunk_done = FALSE

(***************************************************************************)
(* sync.rs: fill_in_taddrs_to_gap_limit                                    *)
(***************************************************************************)

\* TADDR_INDEX_GAP_LIMIT (20 in the source), scaled down
TADDR_INDEX_GAP_LIMIT == 2

\* The largest address index in the input list of the first account
MaxInputIndex == 4

\* The largest address index in the input list of the second account
MaxInputIndex2 == 1

Accounts == {1, 2}

\* TransparentAddressSyncInfo { account_id, index, address, height, used }; the address
\* is determined by the account and the index, the height plays no part in the fill and
\* is None in what the fill adds (sync.rs:435)
SyncInfo(account, index, used) ==
    [account_id |-> account, index |-> index, height |-> None, used |-> used]

\* The accounts of a list: the keys of taddrs_by_account (sync.rs:411-417)
AccountsIn(list) == {list[i].account_id : i \in 1 .. Len(list)}

\* taddrs_by_account[account]: index -> info, a later entry of the list replacing an
\* earlier one of the same index (sync.rs:411-417)
TaddrsInAccount(list, account) ==
    LET at(idx) == {i \in 1 .. Len(list) :
                        list[i].account_id = account /\ list[i].index = idx}
        idxs == {list[i].index : i \in {j \in 1 .. Len(list) : list[j].account_id = account}}
    IN [idx \in idxs |-> list[CHOOSE i \in at(idx) : \A j \in at(idx) : j <= i]]

\* A slip that lets the loop run until the count exceeds the gap limit.
KeepFillingOneMore(consecutive_unused_addresses) ==
    consecutive_unused_addresses <= TADDR_INDEX_GAP_LIMIT

\* `while consecutive_unused_addresses < TADDR_INDEX_GAP_LIMIT` (sync.rs:426)
KeepFilling(consecutive_unused_addresses) ==
    consecutive_unused_addresses < TADDR_INDEX_GAP_LIMIT

\* The while loop for one account (sync.rs:424-455): the addresses it adds, in order.
\* Every unified address derived for an account of the list has a transparent receiver.
RECURSIVE FillAccount(_, _, _, _, _)
FillAccount(account, taddrs_in_account, index, consecutive_unused_addresses, added) ==
    IF ~KeepFilling(consecutive_unused_addresses) THEN added
    ELSE IF index \notin DOMAIN taddrs_in_account
         THEN FillAccount(account, taddrs_in_account, index + 1,
                          consecutive_unused_addresses + 1,
                          Append(added, SyncInfo(account, index, FALSE)))
         ELSE IF taddrs_in_account[index].used
              THEN FillAccount(account, taddrs_in_account, index + 1, 0, added)
              ELSE FillAccount(account, taddrs_in_account, index + 1,
                               consecutive_unused_addresses + 1, added)

\* The loop over the accounts (sync.rs:423), in the order the HashMap yields them
RECURSIVE FillAccounts(_, _)
FillAccounts(list, order) ==
    IF order = << >> THEN << >>
    ELSE FillAccount(Head(order), TaddrsInAccount(list, Head(order)), 0, 0, << >>)
             \o FillAccounts(list, Tail(order))

\* The orders in which a HashMap may yield a set of accounts
Orders(S) ==
    {o \in UNION {[1 .. Cardinality(S) -> S]} : \A a \in S : \E i \in DOMAIN o : o[i] = a}

\* The entries of one account with the indices 0 .. max, in ascending index order,
\* cfg[i] telling whether index i is absent, unused or used
RECURSIVE EntriesFrom(_, _, _, _)
EntriesFrom(account, cfg, i, max) ==
    IF i > max THEN << >>
    ELSE (IF cfg[i] = "absent" THEN << >>
          ELSE <<SyncInfo(account, i, cfg[i] = "used")>>)
             \o EntriesFrom(account, cfg, i + 1, max)

\* The lists get_transparent_addresses_and_sync_heights may return
InputLists ==
    {EntriesFrom(1, c1, 0, MaxInputIndex) \o EntriesFrom(2, c2, 0, MaxInputIndex2) :
        c1 \in [0 .. MaxInputIndex -> {"absent", "unused", "used"}],
        c2 \in [0 .. MaxInputIndex2 -> {"absent", "unused", "used"}]}

GapInit ==
    /\ taddrs \in InputLists
    /\ gap_call = [name |-> "none"]

\* fill_in_taddrs_to_gap_limit(&mut taddrs, db) returning Ok(added)
FillInTaddrsToGapLimit ==
    /\ UNCHANGED notGap
    /\ \E order \in Orders(AccountsIn(taddrs)) :
           LET added == FillAccounts(taddrs, order)
           IN /\ taddrs' = taddrs \o added
              /\ gap_call' = [name |-> "fill", before |-> taddrs, added |-> added]

GapNext == FillInTaddrsToGapLimit

\* The list before discovery starts, for the specifications of the other components
GapIdle ==
    /\ taddrs = << >>
    /\ gap_call = [name |-> "none"]

(***************************************************************************)
(* sync.rs: the transparent discovery loop and                             *)
(* download_transparent_transactions                                       *)
(***************************************************************************)
\* The largest address index in the list the loop starts with
MaxDiscoverIndex == 2

\* The largest address index of the first account with transactions on the chain
MaxHistoryIndex == 3

\* network.activation_height(NetworkUpgrade::Sapling) (sync.rs:646-648), in the model's heights
SaplingActivation == 1

\* status.tip_height of the iteration (sync.rs:121-134)
TipHeight == MaxHeight

\* The address of an entry: the account and the index determine it
AddressOf(info) == <<info.account_id, info.index>>

\* The entries of a list, the first `synced` of them synced up to the block below the tip
\* by an earlier iteration and the others, added since, never synced
WithHeights(list, synced) ==
    [i \in 1 .. Len(list) |->
        [list[i] EXCEPT !.height = IF i <= synced THEN TipHeight - 1 ELSE None]]

\* The lists get_transparent_addresses_and_sync_heights may return to the loop
DiscoverInputLists ==
    UNION {{WithHeights(list, synced) : synced \in 0 .. Len(list)} :
           list \in {EntriesFrom(1, c1, 0, MaxDiscoverIndex) \o EntriesFrom(2, c2, 0, 0) :
                        c1 \in [0 .. MaxDiscoverIndex -> {"absent", "unused", "used"}],
                        c2 \in [{0} -> {"absent", "unused", "used"}]}}

\* The wallet store's last-synced heights of the addresses of a list
RECURSIVE HeightsOf(_)
HeightsOf(list) ==
    IF list = << >> THEN << >>
    ELSE AddressOf(Head(list)) :> Head(list).height @@ HeightsOf(Tail(list))

\* The loop is not running, for the specifications of the other components
DiscoverIdle ==
    /\ taddrs_to_scan = << >>
    /\ address_history = {}
    /\ latest_scanned = << >>
    /\ discover_pc = "idle"
    /\ queries = << >>

\* `let mut taddrs = ..; let mut taddrs_to_scan = taddrs.clone()` (sync.rs:200-201)
DiscoverInit ==
    /\ taddrs \in DiscoverInputLists
    /\ gap_call = [name |-> "none"]
    /\ taddrs_to_scan = taddrs
    /\ address_history \in SUBSET (({1} \X (0 .. MaxHistoryIndex)) \cup {<<2, 0>>})
    /\ latest_scanned = HeightsOf(taddrs)
    /\ discover_pc = "while"
    /\ queries = << >>

\* A slip that queries from Sapling activation whatever the last-synced height.
QueryStartFromActivation(start) == SaplingActivation

\* `start.unwrap_or_else(|| network.activation_height(NetworkUpgrade::Sapling).unwrap())`
\* (sync.rs:645-649)
QueryStart(start) == IF start = None THEN SaplingActivation ELSE start

\* A slip that negates the filter: !taddrs_to_scan.contains(a).
ContainsNot(list, info) == ~\E i \in 1 .. Len(list) : list[i] = info

\* `taddrs_to_scan.contains(a)` (sync.rs:203): equality of the whole entry
Contains(list, info) == \E i \in 1 .. Len(list) : list[i] = info

\* The for loop (sync.rs:203-225) from entry i on.  `fail_at` is the entry at which an
\* error is returned, 0 if none is, and `fail_in` the call that returns it.
\* download_transparent_transactions queries the heights [QueryStart(height), tip] and,
\* when neither the query nor the decoding and storing of a transaction failed, stores
\* the tip as the address's last-synced height (sync.rs:637-692); a non-empty result
\* marks the entry used and is reported; report_new_transactions may fail after that
\* (sync.rs:214-223).
RECURSIVE ForLoop(_, _, _, _, _, _, _)
ForLoop(list, to_scan, i, fail_at, fail_in, db, log) ==
    IF i > Len(list) THEN [taddrs |-> list, db |-> db, log |-> log, failed |-> FALSE]
    ELSE IF ~Contains(to_scan, list[i])
    THEN ForLoop(list, to_scan, i + 1, fail_at, fail_in, db, log)
    ELSE LET addr_info == list[i]
             query == [address |-> AddressOf(addr_info),
                       start |-> QueryStart(addr_info.height),
                       end |-> TipHeight,
                       ok |-> ~(i = fail_at /\ fail_in = "download")]
             marked == IF AddressOf(addr_info) \in address_history
                       THEN [list EXCEPT ![i].used = TRUE] ELSE list
             stored == [db EXCEPT ![AddressOf(addr_info)] = TipHeight]
         IN IF i = fail_at /\ fail_in = "download"
            THEN [taddrs |-> list, db |-> db, log |-> Append(log, query), failed |-> TRUE]
            ELSE IF i = fail_at
            THEN [taddrs |-> marked, db |-> stored, log |-> Append(log, query),
                  failed |-> TRUE]
            ELSE ForLoop(marked, to_scan, i + 1, fail_at, fail_in, stored,
                         Append(log, query))

\* `while !taddrs_to_scan.is_empty()` (sync.rs:202)
DiscoverWhile ==
    /\ UNCHANGED notDiscover
    /\ discover_pc = "while"
    /\ discover_pc' = IF taddrs_to_scan # << >> THEN "for" ELSE "done"
    /\ UNCHANGED <<taddrs, taddrs_to_scan, address_history, latest_scanned, queries>>

\* The for loop runs over every entry to scan (sync.rs:203-225)
DiscoverFor ==
    /\ UNCHANGED notDiscover
    /\ discover_pc = "for"
    /\ LET r == ForLoop(taddrs, taddrs_to_scan, 1, 0, "none", latest_scanned, queries)
       IN /\ taddrs' = r.taddrs
          /\ latest_scanned' = r.db
          /\ queries' = r.log
    /\ discover_pc' = "fill"
    /\ UNCHANGED <<taddrs_to_scan, address_history>>

\* The for loop ends at the `?` of an entry whose query, decoding or storing failed, or
\* whose transactions could not be reported; sync() returns the error (sync.rs:204-213,
\* :216-223)
DiscoverForFails ==
    /\ UNCHANGED notDiscover
    /\ discover_pc = "for"
    /\ \E fail_at \in {i \in 1 .. Len(taddrs) : Contains(taddrs_to_scan, taddrs[i])},
          fail_in \in {"download", "report"} :
           LET r == ForLoop(taddrs, taddrs_to_scan, 1, fail_at, fail_in, latest_scanned,
                            queries)
           IN /\ fail_in = "report" => AddressOf(taddrs[fail_at]) \in address_history
              /\ taddrs' = r.taddrs
              /\ latest_scanned' = r.db
              /\ queries' = r.log
    /\ discover_pc' = "failed"
    /\ UNCHANGED <<taddrs_to_scan, address_history>>

\* `taddrs_to_scan = fill_in_taddrs_to_gap_limit(&mut taddrs, &mut db.data)?`
\* (sync.rs:227); put_address_with_diversifier_index stores each derived address, never
\* synced (sync.rs:429)
DiscoverFill ==
    /\ UNCHANGED notDiscover
    /\ discover_pc = "fill"
    /\ \E order \in Orders(AccountsIn(taddrs)) :
           LET added == FillAccounts(taddrs, order)
           IN /\ taddrs' = taddrs \o added
              /\ taddrs_to_scan' = added
              /\ latest_scanned' = HeightsOf(added) @@ latest_scanned
    /\ discover_pc' = "while"
    /\ UNCHANGED <<address_history, queries>>

DiscoverNext ==
    \/ DiscoverWhile
    \/ DiscoverFor
    \/ DiscoverForFails
    \/ DiscoverFill

(***************************************************************************)
(* sync.rs: what sync() works with.  The chain server and the wallet store *)
(* (WalletDb of zcash_client_sqlite) are outside the repository; they are  *)
(* modelled by the contract sync() relies on at each call site.            *)
(***************************************************************************)
\* sync.rs:900, the margin of `err.at_height().saturating_sub(10)`, scaled to the model's heights
RewindMargin == 2

\* The wallet store's VERIFY_LOOKAHEAD: how many heights it asks to verify at a time
VERIFY_LOOKAHEAD == 1

\* sync.rs:63 and :69, scaled to the model's blocks
BLOCK_ACTIONS_MEMORY_LIMIT == 1

CHUNK_CHANNEL_CAPACITY == 1

\* sync.rs:75
BLOCKS_CHUNK_THRESHOLD == BLOCK_ACTIONS_MEMORY_LIMIT \div CHUNK_CHANNEL_CAPACITY

\* The most failures injected, during one call, into requests and scans that are not retried
MaxFaults == 1

\* The action counts a block may carry: none, or more than a chunk's threshold
ActionCounts == {0, BLOCKS_CHUNK_THRESHOLD + 1}

\* The chains a sync is run against: every block empty (a range makes one chunk), every
\* block large (every block makes a chunk), or every other block large
BlockActionPatterns ==
    {[h \in 1 .. MaxHeight |-> n] : n \in ActionCounts}
        \cup {[h \in 1 .. MaxHeight |-> IF h % 2 = 0 THEN BLOCKS_CHUNK_THRESHOLD + 1 ELSE 0]}

\* The heights of blocks a wallet deals with: its birthday is at or above Sapling activation
WalletHeights == 1 .. MaxHeight

NoFork == MaxHeight + 1

MaxOf(S) == CHOOSE x \in S : \A y \in S : y <= x

MinOf(S) == CHOOSE x \in S : \A y \in S : x <= y

\* The hash of the server's block at height h
HashAt(h) == IF h >= fork_height THEN "b" ELSE "a"

\* The CompactBlock the server streams for height h
ServerBlock(h) == [height |-> h, hash |-> HashAt(h)]

\* CompactBlock.prev_hash: the hash of the block's parent on the block's own chain
PrevHash(block) == IF block.hash = "b" /\ block.height > fork_height THEN "b" ELSE "a"

\* error.rs:16-114, the variants of Error that sync() produces; `code` is the tonic code
\* of a TonicStatus and "" otherwise
Error(variant, code) == [variant |-> variant, code |-> code]

Err(e) == [tag |-> "Err", error |-> e]

\* interop.rs:182-194, impl From<Error> for LightWalletError
LightWalletErrorFrom(e) ==
    IF e.variant = "TonicStatus" /\ e.code = "Cancelled" THEN "Canceled"
    ELSE "Other"

\* ScanPriority, in its derived order
PriorityRank(p) ==
    CASE p = "Scanned" -> 10
      [] p = "Historic" -> 20
      [] p = "ChainTip" -> 50
      [] p = "Verify" -> 60

\* WalletDb::suggest_scan_ranges, the ranges: maximal runs of unscanned heights of one priority
SuggestedRanges(queue) ==
    LET unscanned == {h \in DOMAIN queue : queue[h] # "Scanned"}
        same(h, g) == g \in DOMAIN queue /\ queue[g] = queue[h]
        starts == {h \in unscanned : ~same(h, h - 1)}
        end(s) == MinOf({e \in s + 1 .. MaxHeight + 1 : ~same(s, e)})
    IN {ScanRange(s, end(s), queue[s]) : s \in starts}

\* WalletDb::suggest_scan_ranges, the order: by priority, highest first, then by end, highest first
RECURSIVE InPriorityOrder(_)
InPriorityOrder(ranges) ==
    IF ranges = {} THEN << >>
    ELSE LET first == CHOOSE r \in ranges : \A o \in ranges :
                          \/ PriorityRank(r.priority) > PriorityRank(o.priority)
                          \/ /\ PriorityRank(r.priority) = PriorityRank(o.priority)
                             /\ r.end >= o.end
         IN <<first>> \o InPriorityOrder(ranges \ {first})

\* db.data.suggest_scan_ranges() (sync.rs:231, :253, :280, :887)
suggest_scan_ranges(queue) == InPriorityOrder(SuggestedRanges(queue))

\* db.data.block_fully_scanned() (sync.rs:363): the highest height up to which every block
\* from the birthday on is scanned
block_fully_scanned(birthday, scanned) ==
    LET full == {h \in DOMAIN scanned : \A x \in birthday .. h : x \in DOMAIN scanned}
    IN IF full = {} THEN None ELSE MaxOf(full)

\* db.data.update_chain_tip(tip) (sync.rs:137): heights up to the tip that the queue does not
\* hold are queued with ChainTip priority; when the tip moved past the wallet's view of it,
\* the heights just above the highest scanned block are to be verified first
update_chain_tip(queue, scanned, birthday, tip) ==
    LET prior_tip == IF DOMAIN queue = {} THEN birthday - 1 ELSE MaxOf(DOMAIN queue)
        extended == [h \in DOMAIN queue \cup (birthday .. tip) |->
                        IF h \in DOMAIN queue THEN queue[h] ELSE "ChainTip"]
        verify == IF DOMAIN scanned # {} /\ tip > prior_tip
                  THEN LET max_scanned == MaxOf(DOMAIN scanned)
                       IN max_scanned + 1 .. MinOf({max_scanned + VERIFY_LOOKAHEAD, tip})
                  ELSE {}
    IN [h \in DOMAIN extended |->
           IF h \in verify /\ extended[h] # "Scanned" THEN "Verify" ELSE extended[h]]

\* db.data.truncate_to_height(height) (sync.rs:908): blocks above the height are forgotten,
\* the queue ends at the height, and the heights just above it are to be verified
wallet_truncate_to_height(queue, scanned, birthday, height) ==
    LET prior_tip == IF DOMAIN queue = {} THEN birthday - 1 ELSE MaxOf(DOMAIN queue)
        kept == {h \in DOMAIN queue : h <= height}
        verify == {h \in height + 1 .. height + VERIFY_LOOKAHEAD : birthday <= h /\ h <= prior_tip}
    IN [queue |-> [h \in kept \cup verify |-> IF h \in verify THEN "Verify" ELSE queue[h]],
        scanned |-> [h \in {x \in DOMAIN scanned : x <= height} |-> scanned[h]]]

\* A slip that keeps only the rows just scanned and forgets the blocks held before.
put_blocks_forgetting(queue, scanned, rows) ==
    LET heights == {rows[i].height : i \in 1 .. Len(rows)}
        hash(h) == rows[CHOOSE i \in 1 .. Len(rows) : rows[i].height = h].hash
    IN [queue |-> [h \in DOMAIN queue \cup heights |->
                      IF h \in heights THEN "Scanned" ELSE queue[h]],
        scanned |-> [h \in heights |-> hash(h)]]

\* The wallet store after scan_cached_blocks stored the rows it scanned (put_blocks)
put_blocks(queue, scanned, rows) ==
    LET heights == {rows[i].height : i \in 1 .. Len(rows)}
        hash(h) == rows[CHOOSE i \in 1 .. Len(rows) : rows[i].height = h].hash
    IN [queue |-> [h \in DOMAIN queue \cup heights |->
                      IF h \in heights THEN "Scanned" ELSE queue[h]],
        scanned |-> [h \in DOMAIN scanned \cup heights |->
                        IF h \in heights THEN hash(h) ELSE scanned[h]]]

\* scan_cached_blocks' continuity check: the height of the first row that does not follow
\* the block before it (the wallet's block below the first row, the previous row after
\* that), None when every row does.  A row's error is a continuity error
\* (PrevHashMismatch, BlockHeightDiscontinuity).
ContinuityErrorAt(rows, scanned) ==
    LET broken(i) ==
            IF i = 1
            THEN /\ rows[1].height - 1 \in DOMAIN scanned
                 /\ scanned[rows[1].height - 1] # PrevHash(rows[1])
            ELSE \/ rows[i].height # rows[i - 1].height + 1
                 \/ PrevHash(rows[i]) # rows[i - 1].hash
        bad == {i \in 1 .. Len(rows) : broken(i)}
    IN IF bad = {} THEN None ELSE rows[MinOf(bad)].height

\* A slip that rewinds to the height of the error itself.
RewindHeightNoMargin(at_height) == at_height

\* sync.rs:900, `err.at_height().saturating_sub(10)`
RewindHeight(at_height) ==
    IF at_height < RewindMargin THEN 0 ELSE at_height - RewindMargin

\* SyncUpdateData (last_error left out)
SyncUpdateData(current_step, total_steps, last_fully_scanned_block, tip_height) ==
    [current_step |-> current_step, total_steps |-> total_steps,
     last_fully_scanned_block |-> last_fully_scanned_block, tip_height |-> tip_height]

\* Option<SyncUpdateData>
NoneStatus == [some |-> FALSE]

SomeStatus(s) == [some |-> TRUE, data |-> s]

\* update_status (sync.rs:358-378)
update_status(s, birthday, scanned) ==
    [s EXCEPT !.last_fully_scanned_block = block_fully_scanned(birthday, scanned)]

NoRange == ScanRange(0, 0, "None")

\* A slip that counts the first range only.
SumLenOfFirst(ranges) == IF ranges = << >> THEN 0 ELSE RangeLen(Head(ranges))

\* `scan_ranges.iter().map(|r| r.len()).sum()` (sync.rs:285)
RECURSIVE SumLen(_)
SumLen(ranges) ==
    IF ranges = << >> THEN 0 ELSE RangeLen(Head(ranges)) + SumLen(Tail(ranges))

chainVars == <<server_tip, fork_height, block_actions, chain_grew>>

walletVars == <<wallet_birthday, wallet_queue, wallet_scanned, truncations>>

downloadVars == <<download_pc, download_after, stream_next, streamed, chunks_sent,
                  download_blocks_vec, accumulated_size, downloader>>

scannerVars == <<scan_pc, scan_range, scanner_status, priorities_changed, scan_outcome, scanner,
                 scanned_up_to>>

NoOutcome == [kind |-> "none"]

\* A slip that reports every status twice.
report_status_twice(calls) == IF progress THEN calls + 2 ELSE calls

\* report_status (sync.rs:380-384): sink.update_status is invoked if there is a sink; `calls`
\* is the number of invocations so far
report_status(calls) == IF progress THEN calls + 1 ELSE calls

\* report_new_transactions and report_transactions_in_range (sync.rs:139-196):
\* sink.report_transactions is invoked if there is a sink and the list is not empty
report_transactions(calls, new_transactions) ==
    IF progress /\ new_transactions THEN calls + 1 ELSE calls

\* The most update_status invocations after which a continuous sync still starts another
\* pass when the mempool wait ends
MaxStatusCalls == 6

\* A task that panicked: its JoinHandle yields a JoinError
Panicked == [tag |-> "Panic"]

(***************************************************************************)
(* sync.rs: download_and_scan_blocks, download_blocks, scan_blocks         *)
(***************************************************************************)
\* No download_and_scan_blocks call is running
PipeIdle ==
    /\ block_range = NoRange
    /\ channel = << >>
    /\ priorities_changed_token = FALSE
    /\ download_pc = "idle"
    /\ download_after = "loop"
    /\ stream_next = 0
    /\ streamed = << >>
    /\ chunks_sent = << >>
    /\ download_blocks_vec = << >>
    /\ accumulated_size = 0
    /\ downloader = Pending
    /\ scan_pc = "idle"
    /\ scan_range = NoRange
    /\ scanner_status = NoneStatus
    /\ priorities_changed = FALSE
    /\ scan_outcome = NoOutcome
    /\ scanner = Pending
    /\ scanned_up_to = None

\* download_and_scan_blocks returned: its channel, tokens, tasks and Db are dropped
EndDownloadAndScan ==
    /\ block_range' = NoRange
    /\ channel' = << >>
    /\ priorities_changed_token' = FALSE
    /\ download_pc' = "idle"
    /\ download_after' = "loop"
    /\ stream_next' = 0
    /\ streamed' = << >>
    /\ chunks_sent' = << >>
    /\ download_blocks_vec' = << >>
    /\ accumulated_size' = 0
    /\ downloader' = Pending
    /\ scan_pc' = "idle"
    /\ scan_range' = NoRange
    /\ scanner_status' = NoneStatus
    /\ priorities_changed' = FALSE
    /\ scan_outcome' = NoOutcome
    /\ scanner' = Pending
    /\ scanned_up_to' = None
    /\ blocks' = EmptyCache

\* download_and_scan_blocks up to the spawn of its two tasks (sync.rs:714-736), called with
\* a Db that Db::load just made (backing_store.rs:130: an empty BlockCache)
StartDownloadAndScan(range, st) ==
    /\ block_range' = range
    /\ channel' = << >>
    /\ priorities_changed_token' = FALSE
    /\ download_pc' = "get_block_range"
    /\ download_after' = "loop"
    /\ stream_next' = range.start
    /\ streamed' = << >>
    /\ chunks_sent' = << >>
    /\ download_blocks_vec' = << >>
    /\ accumulated_size' = 0
    /\ downloader' = Pending
    /\ scan_pc' = "recv"
    /\ scan_range' = NoRange
    /\ scanner_status' = st
    /\ priorities_changed' = FALSE
    /\ scan_outcome' = NoOutcome
    /\ scanner' = Pending
    /\ scanned_up_to' = range.start
    /\ blocks' = EmptyCache

\* A slip that makes the range's token a token of its own, not a child.
ChildIsCancelledAlone == priorities_changed_token

\* cancellation_token.is_cancelled() of the child token: cancelled by itself or through its parent
ChildIsCancelled == cancellation_token \/ priorities_changed_token

\* What the downloader's steps leave alone
DownloadFrame ==
    UNCHANGED <<notSync, chainVars, permanent_failure, walletVars, orchVars, block_range,
                priorities_changed_token, scannerVars, sinkVars, blocks>>

\* A slip that asks for the tree state of the chunk's first block itself.
base_height_of_first(chunk) == chunk[1].height

\* send_blocks_and_chainstate: `let base_height = blocks[0].height - 1` (sync.rs:844)
base_height(chunk) == chunk[1].height - 1

\* The ChainState that to_chain_state makes of the tree state the server returns for a
\* height (sync.rs:845-852)
ChainStateAt(height) == [block_height |-> height]

\* A slip that keeps a clone of the sender alive after the task has ended.
DownloadReturnsKeepingSender(result) ==
    /\ downloader' = result
    /\ download_pc' = "returned"

\* download_blocks returns: the task ends and its sender is dropped
DownloadReturns(result) ==
    /\ downloader' = result
    /\ download_pc' = "done"

\* download_blocks after its loop (sync.rs:835-837, :859), with `vec` accumulated
AfterDownloadLoop(vec) ==
    IF vec # << >>
    THEN /\ download_pc' = "get_tree_state"
         /\ download_after' = "exit"
         /\ UNCHANGED downloader
    ELSE /\ DownloadReturns(OkResult("unit"))
         /\ UNCHANGED download_after

\* `client.get_block_range(range).await?` (sync.rs:809): no retry around it
DownloadGetBlockRange ==
    /\ DownloadFrame
    /\ download_pc = "get_block_range"
    /\ \/ /\ download_pc' = "try_next"
          /\ UNCHANGED <<downloader, faults>>
       \/ /\ faults < MaxFaults
          /\ faults' = faults + 1
          /\ DownloadReturns(Err(Error("TonicStatus", "Unavailable")))
    /\ UNCHANGED <<channel, chunks_sent, download_after, stream_next, streamed,
                   download_blocks_vec, accumulated_size>>

\* `stream.try_next().await?` and the loop body up to its next await (sync.rs:811-828)
DownloadTryNext ==
    /\ DownloadFrame
    /\ download_pc = "try_next"
    /\ UNCHANGED <<channel, chunks_sent>>
    /\ \/ \* Some(block): the block of the next height, or of the one after it when the
          \* server leaves a block out of the stream
          /\ \E skipped \in {0, 1} :
                LET height == stream_next + skipped
                IN /\ height < block_range.end
                   /\ IF skipped = 0
                      THEN UNCHANGED faults
                      ELSE /\ faults < MaxFaults
                           /\ faults' = faults + 1
                   /\ LET size == accumulated_size + block_actions[height]
                          vec == Append(download_blocks_vec, ServerBlock(height))
                      IN /\ stream_next' = height + 1
                         /\ streamed' = Append(streamed, ServerBlock(height))
                         /\ download_blocks_vec' = vec
                         /\ accumulated_size' = size
                         /\ IF size > BLOCKS_CHUNK_THRESHOLD
                            THEN /\ download_pc' = "get_tree_state"
                                 /\ download_after' = "loop"
                                 /\ UNCHANGED downloader
                            ELSE IF ChildIsCancelled
                                 THEN AfterDownloadLoop(vec)
                                 ELSE UNCHANGED <<download_pc, download_after, downloader>>
       \/ \* None: the stream ended
          /\ ~(stream_next < block_range.end)
          /\ AfterDownloadLoop(download_blocks_vec)
          /\ UNCHANGED <<stream_next, streamed, download_blocks_vec, accumulated_size,
                         faults>>
       \/ \* the stream fails
          /\ faults < MaxFaults
          /\ faults' = faults + 1
          /\ DownloadReturns(Err(Error("TonicStatus", "Unavailable")))
          /\ UNCHANGED <<download_after, stream_next, streamed, download_blocks_vec,
                         accumulated_size>>

\* send_blocks_and_chainstate: `client.get_tree_state(..).await?` and to_chain_state
\* (sync.rs:844-852): no retry around it
DownloadGetTreeState ==
    /\ DownloadFrame
    /\ download_pc = "get_tree_state"
    /\ \/ /\ download_pc' = "send"
          /\ UNCHANGED <<downloader, faults>>
       \/ /\ faults < MaxFaults
          /\ faults' = faults + 1
          /\ DownloadReturns(Err(Error("TonicStatus", "Unavailable")))
    /\ UNCHANGED <<channel, chunks_sent, download_after, stream_next, streamed,
                   download_blocks_vec, accumulated_size>>

\* `sender.send((blocks, chain_state)).await` succeeds once the channel has room
\* (sync.rs:854), then the caller goes on (sync.rs:820-827 in the loop, :859 after it)
DownloadSend ==
    /\ DownloadFrame
    /\ download_pc = "send"
    /\ scan_pc # "done"
    /\ Len(channel) < CHUNK_CHANNEL_CAPACITY
    /\ LET message == [blocks |-> download_blocks_vec,
                       chain_state |-> ChainStateAt(base_height(download_blocks_vec))]
       IN /\ channel' = Append(channel, message)
          /\ chunks_sent' = Append(chunks_sent, message)
    /\ download_blocks_vec' = << >>
    /\ accumulated_size' = 0
    /\ IF download_after = "loop" /\ ~ChildIsCancelled
       THEN /\ download_pc' = "try_next"
            /\ UNCHANGED downloader
       ELSE DownloadReturns(OkResult("unit"))
    /\ UNCHANGED <<download_after, stream_next, streamed, faults>>

\* `sender.send(..).await.unwrap()` when the scanner task has ended and dropped the
\* receiver: send fails and unwrap panics (sync.rs:854)
DownloadSendPanics ==
    /\ DownloadFrame
    /\ download_pc = "send"
    /\ scan_pc = "done"
    /\ DownloadReturns(Panicked)
    /\ UNCHANGED <<channel, chunks_sent, download_after, stream_next, streamed,
                   download_blocks_vec, accumulated_size, faults>>

\* What the scanner's steps leave alone
ScannerFrame ==
    UNCHANGED <<notSync, chainVars, permanent_failure, continually, progress,
                cancellation_token, sync_pc, sync_status, scan_ranges, sync_result,
                mempool_messages, block_range, downloadVars>>

\* The scanner task returns: the task ends and its receiver is dropped
ScannerReturns(result) ==
    /\ scanner' = result
    /\ scan_pc' = "done"

\* select! takes `receive.recv()` with Some(chunk); the scanner builds the chunk's range and
\* inserts the chunk into the cache (sync.rs:738-750)
ScannerRecv ==
    /\ ScannerFrame
    /\ UNCHANGED <<scanned_up_to, sinkVars>>
    /\ scan_pc = "recv"
    /\ channel # << >>
    /\ LET chunk == Head(channel).blocks
       IN /\ scan_range' = ScanRange(chunk[1].height, chunk[Len(chunk)].height + 1,
                                     block_range.priority)
          /\ blocks' = insert_range(blocks, chunk)
    /\ channel' = Tail(channel)
    /\ scan_pc' = "scan_blocks"
    /\ UNCHANGED <<walletVars, faults, cancel_observed, priorities_changed_token,
                   scanner_status, priorities_changed, scan_outcome, scanner>>

\* select! takes `receive.recv()` with None: the channel is empty and the sender is dropped;
\* the loop ends and the task returns Ok (sync.rs:781-784)
ScannerRecvNone ==
    /\ ScannerFrame
    /\ UNCHANGED <<scanned_up_to, sinkVars>>
    /\ scan_pc = "recv"
    /\ channel = << >>
    /\ download_pc = "done"
    /\ ScannerReturns(OkResult([priorities_changed |-> priorities_changed,
                                status |-> scanner_status]))
    /\ UNCHANGED <<walletVars, faults, cancel_observed, priorities_changed_token, channel,
                   blocks, scan_range, scanner_status, priorities_changed, scan_outcome>>

\* select! takes `state.cancellation_token.cancelled()` (sync.rs:740)
ScannerCancelled ==
    /\ ScannerFrame
    /\ UNCHANGED <<scanned_up_to, sinkVars>>
    /\ scan_pc = "recv"
    /\ cancellation_token
    /\ ScannerReturns(Err(Error("Canceled", "")))
    /\ cancel_observed' = "recv"
    /\ UNCHANGED <<walletVars, faults, priorities_changed_token, channel,
                   blocks, scan_range, scanner_status, priorities_changed, scan_outcome>>

\* sync.rs:752-761 once scan_blocks returned Ok(changed)
ScanBlocksReturnedOk(changed) ==
    /\ IF changed /\ ~priorities_changed
       THEN /\ priorities_changed_token' = TRUE
            /\ priorities_changed' = TRUE
       ELSE UNCHANGED <<priorities_changed_token, priorities_changed>>
    /\ scan_pc' = "remove_range"
    /\ chunks_scanned' = chunks_scanned + 1
    /\ scanned_up_to' = scan_range.end
    /\ UNCHANGED scanner

\* scan_blocks (sync.rs:866-921) and what the scanner does with its result (sync.rs:752-761)
ScannerScanBlocks ==
    /\ ScannerFrame
    /\ UNCHANGED <<update_status_calls, scanner_status_calls, report_transactions_calls>>
    /\ scan_pc = "scan_blocks"
    /\ UNCHANGED <<channel, cancel_observed, scan_range, scanner_status, wallet_birthday>>
    /\ LET read == with_blocks(blocks, scan_range.start, RangeLen(scan_range))
           at_height == ContinuityErrorAt(read.rows, wallet_scanned)
       IN \/ \* Err(ChainError::Scan(err)) if err.is_continuity_error()
             /\ read.tag = "Ok"
             /\ at_height # None
             /\ LET rewind_height == RewindHeight(at_height)
                    w == wallet_truncate_to_height(wallet_queue, wallet_scanned,
                                                   wallet_birthday, rewind_height)
                IN /\ wallet_queue' = w.queue
                   /\ wallet_scanned' = w.scanned
                   /\ truncations' = Append(truncations, rewind_height)
                   /\ blocks' = truncate_to_height(blocks, rewind_height)
             /\ scan_outcome' = [kind |-> "continuity", at_height |-> at_height,
                                 returned |-> OkResult(TRUE)]
             /\ ScanBlocksReturnedOk(TRUE)
             /\ UNCHANGED faults
          \/ \* Err(ChainError::BlockSource(BlockNotFound(head))): the cache lacks a height
             \* of the range, found when the rows are read, before any of them is scanned
             /\ read.tag = "BlockNotFound"
             /\ scan_outcome' = [kind |-> "not_found", at_height |-> read.height,
                                 returned |-> Err(Error("BlockSource", ""))]
             /\ ScannerReturns(Err(Error("BlockSource", "")))
             /\ UNCHANGED <<wallet_queue, wallet_scanned, truncations, blocks, faults,
                            priorities_changed_token, priorities_changed, chunks_scanned,
                            scanned_up_to>>
          \/ \* Err(other): any other scan or storage error
             /\ at_height = None
             /\ read.tag = "Ok"
             /\ faults < MaxFaults
             /\ faults' = faults + 1
             /\ scan_outcome' = [kind |-> "other", at_height |-> None,
                                 returned |-> Err(Error("Scan", ""))]
             /\ ScannerReturns(Err(Error("Scan", "")))
             /\ UNCHANGED <<wallet_queue, wallet_scanned, truncations, blocks,
                            priorities_changed_token, priorities_changed, chunks_scanned,
                            scanned_up_to>>
          \/ \* Ok(_)
             /\ at_height = None
             /\ read.tag = "Ok"
             /\ LET w == put_blocks(wallet_queue, wallet_scanned, read.rows)
                    latest_ranges == suggest_scan_ranges(w.queue)
                    changed == /\ latest_ranges # << >>
                               /\ PriorityRank(latest_ranges[1].priority)
                                      > PriorityRank(scan_range.priority)
                IN /\ wallet_queue' = w.queue
                   /\ wallet_scanned' = w.scanned
                   /\ scan_outcome' = [kind |-> "ok", at_height |-> None,
                                       returned |-> OkResult(changed)]
                   /\ ScanBlocksReturnedOk(changed)
             /\ UNCHANGED <<truncations, blocks, faults>>

\* `db.blocks.remove_range(scan_range.block_range())` (sync.rs:764)
ScannerRemoveRange ==
    /\ ScannerFrame
    /\ UNCHANGED <<scanned_up_to, sinkVars>>
    /\ scan_pc = "remove_range"
    /\ blocks' = remove_range(blocks, scan_range.start, scan_range.end)
    /\ scan_pc' = "report"
    /\ UNCHANGED <<walletVars, faults, cancel_observed, priorities_changed_token, channel,
                   scan_range, scanner_status, priorities_changed, scan_outcome, scanner>>

\* The status update and the check of the sync-wide token that end the loop body
\* (sync.rs:766-778)
ScannerReport ==
    /\ ScannerFrame
    /\ update_status_calls' = IF scanner_status.some THEN report_status(update_status_calls)
                              ELSE update_status_calls
    /\ scanner_status_calls' = IF scanner_status.some THEN report_status(scanner_status_calls)
                               ELSE scanner_status_calls
    /\ UNCHANGED <<scanned_up_to, chunks_scanned, report_transactions_calls>>
    /\ scan_pc = "report"
    /\ scanner_status' =
           IF scanner_status.some
           THEN SomeStatus(update_status(
                    [scanner_status.data EXCEPT !.current_step = @ + RangeLen(scan_range)],
                    wallet_birthday, wallet_scanned))
           ELSE scanner_status
    /\ IF cancellation_token
       THEN /\ ScannerReturns(Err(Error("Canceled", "")))
            /\ cancel_observed' = "post_chunk"
       ELSE /\ scan_pc' = "recv"
            /\ UNCHANGED <<scanner, cancel_observed>>
    /\ scan_range' = NoRange
    /\ UNCHANGED <<walletVars, faults, priorities_changed_token, channel, blocks,
                   priorities_changed, scan_outcome>>

\* `tokio::try_join!(downloader, scanner)?` then `scan_result` (sync.rs:787-789): a task that
\* panicked ends the join at once with its JoinError; otherwise both tasks are awaited, the
\* downloader's own Result is dropped by the `_` pattern and the scanner's is returned
try_join ==
    IF downloader = Panicked THEN Err(Error("Join", ""))
    ELSE IF downloader # Pending /\ scanner # Pending THEN scanner
    ELSE Pending

(***************************************************************************)
(* sync.rs: sync()                                                         *)
(***************************************************************************)
\* What sync()'s own steps leave alone
MempoolFrame == UNCHANGED <<notSync, chainVars, wallet_birthday, truncations, continually, progress,
                         cancellation_token>>

\* What sync()'s steps outside the mempool wait leave alone
OrchFrame == MempoolFrame /\ UNCHANGED mempool_messages

\* `return` from sync()
Return(result) ==
    /\ sync_result' = result
    /\ sync_pc' = "returned"

\* webrequest_with_retry around a request of sync() ends in an error: with the cancelled
\* status once the token has fired (resilience.rs:59-62, :73-78), with the request's own
\* status when every attempt failed (resilience.rs:68-70)
RetriedRequestFails ==
    \/ /\ cancellation_token
       /\ Return(Err(Error("TonicStatus", "Cancelled")))
       /\ cancel_observed' = "rpc"
       /\ UNCHANGED permanent_failure
    \/ /\ ~cancellation_token
       /\ Return(Err(Error("TonicStatus", "Unavailable")))
       /\ permanent_failure' = TRUE
       /\ UNCHANGED cancel_observed

\* get_lightd_info, parse_network, Db::load (sync.rs:85-105)
GetLightdInfo ==
    /\ OrchFrame
    /\ UNCHANGED sinkVars
    /\ sync_pc = "get_lightd_info"
    /\ \/ /\ ~cancellation_token
          /\ sync_pc' = "update_subtree_roots"
          /\ UNCHANGED <<sync_result, cancel_observed, permanent_failure>>
       \/ RetriedRequestFails
    /\ UNCHANGED <<faults, wallet_queue, wallet_scanned, sync_status, scan_ranges, pipeVars,
                   blocks>>

\* update_subtree_roots (sync.rs:109, :583-624): two get_subtree_roots requests, no retry,
\* no token
UpdateSubtreeRoots ==
    /\ OrchFrame
    /\ UNCHANGED sinkVars
    /\ sync_pc = "update_subtree_roots"
    /\ \/ /\ sync_pc' = "fetch_tip"
          /\ UNCHANGED <<sync_result, faults>>
       \/ /\ faults < MaxFaults
          /\ faults' = faults + 1
          /\ Return(Err(Error("Anyhow", "")))
    /\ UNCHANGED <<permanent_failure, cancel_observed, wallet_queue, wallet_scanned, sync_status,
                   scan_ranges, pipeVars, blocks>>

\* The tip fetch and update_chain_tip (sync.rs:121-137)
FetchTip ==
    /\ OrchFrame
    /\ UNCHANGED sinkVars
    /\ sync_pc = "fetch_tip"
    /\ \/ /\ ~cancellation_token
          /\ sync_status' = [sync_status EXCEPT !.tip_height = server_tip]
          /\ wallet_queue' = update_chain_tip(wallet_queue, wallet_scanned, wallet_birthday,
                                              server_tip)
          /\ sync_pc' = "discover_transparent"
          /\ UNCHANGED <<sync_result, cancel_observed, permanent_failure>>
       \/ /\ RetriedRequestFails
          /\ UNCHANGED <<sync_status, wallet_queue>>
    /\ UNCHANGED <<faults, wallet_scanned, scan_ranges, pipeVars, blocks>>

\* The transparent discovery loop, then the first suggest_scan_ranges (sync.rs:200-231)
DiscoverTransparent ==
    /\ OrchFrame
    /\ UNCHANGED <<update_status_calls, scanner_status_calls, chunks_scanned>>
    /\ sync_pc = "discover_transparent"
    /\ \/ /\ ~cancellation_token
          /\ \E new_transactions \in BOOLEAN :
                report_transactions_calls' =
                    report_transactions(report_transactions_calls, new_transactions)
          /\ scan_ranges' = suggest_scan_ranges(wallet_queue)
          /\ sync_pc' = "verify"
          /\ UNCHANGED <<sync_result, cancel_observed, permanent_failure>>
       \/ /\ RetriedRequestFails
          /\ UNCHANGED <<scan_ranges, report_transactions_calls>>
    /\ UNCHANGED <<faults, wallet_queue, wallet_scanned, sync_status, pipeVars, blocks>>

\* The head of the verify loop (sync.rs:235-249, :263-266)
VerifyRanges ==
    /\ OrchFrame
    /\ UNCHANGED sinkVars
    /\ sync_pc = "verify"
    /\ IF scan_ranges # << >> /\ scan_ranges[1].priority = "Verify"
       THEN /\ StartDownloadAndScan(scan_ranges[1], NoneStatus)
            /\ sync_pc' = "verify_join"
       ELSE /\ sync_pc' = "scan_remaining"
            /\ UNCHANGED <<pipeVars, blocks>>
    /\ UNCHANGED <<faults, permanent_failure, cancel_observed, wallet_queue, wallet_scanned,
                   sync_status, scan_ranges, sync_result>>

\* download_and_scan_blocks returns to the verify loop (sync.rs:249-261)
VerifyJoined ==
    /\ OrchFrame
    /\ UNCHANGED sinkVars
    /\ sync_pc = "verify_join"
    /\ try_join # Pending
    /\ IF try_join.tag = "Err"
       THEN /\ Return(try_join)
            /\ UNCHANGED scan_ranges
       ELSE /\ IF try_join.value.priorities_changed
               THEN /\ scan_ranges' = suggest_scan_ranges(wallet_queue)
                    /\ sync_pc' = "verify"
               ELSE /\ sync_pc' = "scan_remaining"
                    /\ UNCHANGED scan_ranges
            /\ UNCHANGED sync_result
    /\ EndDownloadAndScan
    /\ UNCHANGED <<faults, permanent_failure, cancel_observed, wallet_queue, wallet_scanned,
                   sync_status>>

\* The second suggest_scan_ranges, total_steps and the report before the for loop
\* (sync.rs:280-289)
ScanRemaining ==
    /\ OrchFrame
    /\ update_status_calls' = report_status(update_status_calls)
    /\ UNCHANGED <<chunks_scanned, scanner_status_calls, report_transactions_calls>>
    /\ sync_pc = "scan_remaining"
    /\ LET ranges == suggest_scan_ranges(wallet_queue)
           total == sync_status.current_step + SumLen(ranges)
       IN /\ scan_ranges' = ranges
          /\ sync_status' = update_status([sync_status EXCEPT !.total_steps = total],
                                     wallet_birthday, wallet_scanned)
    /\ sync_pc' = "next_range"
    /\ UNCHANGED <<faults, permanent_failure, cancel_observed, wallet_queue, wallet_scanned,
                   sync_result, pipeVars, blocks>>

\* The head of the for loop over the suggested ranges (sync.rs:290-298)
NextRange ==
    /\ OrchFrame
    /\ UNCHANGED sinkVars
    /\ sync_pc = "next_range"
    /\ IF scan_ranges # << >>
       THEN /\ StartDownloadAndScan(scan_ranges[1], SomeStatus(sync_status))
            /\ sync_pc' = "range_join"
       ELSE /\ sync_pc' = "caught_up"
            /\ UNCHANGED <<pipeVars, blocks>>
    /\ UNCHANGED <<faults, permanent_failure, cancel_observed, wallet_queue, wallet_scanned,
                   sync_status, scan_ranges, sync_result>>

\* download_and_scan_blocks returns to the for loop (sync.rs:298-301)
RangeJoined ==
    /\ OrchFrame
    /\ UNCHANGED sinkVars
    /\ sync_pc = "range_join"
    /\ try_join # Pending
    /\ IF try_join.tag = "Err"
       THEN /\ Return(try_join)
            /\ EndDownloadAndScan
            /\ UNCHANGED sync_status
       ELSE /\ sync_status' = IF try_join.value.status.some THEN try_join.value.status.data
                         ELSE sync_status
            /\ sync_pc' = "full_transactions"
            /\ UNCHANGED <<sync_result, pipeVars, blocks>>
    /\ UNCHANGED <<faults, permanent_failure, cancel_observed, wallet_queue, wallet_scanned,
                   scan_ranges>>

\* A slip that goes on with the next range although the priorities changed.
AfterRangeIgnoringChange(changed) == "next_range"

\* The end of the for loop's body (sync.rs:329-334): `caught_up = false; break` when the
\* range reported changed priorities, which leads to the head of the outer loop
AfterRangeGoesTo(changed) == IF changed THEN "fetch_tip" ELSE "next_range"

\* The rest of the for loop's body: download_full_shielded_transactions, the reports, and
\* the break on changed priorities (sync.rs:305-334)
AfterRange ==
    /\ OrchFrame
    /\ sync_pc = "full_transactions"
    /\ \/ \* no request was cancelled or failed for good (there may be none to make)
          /\ sync_status' = update_status(sync_status, wallet_birthday, wallet_scanned)
          /\ update_status_calls' = report_status(update_status_calls)
          /\ \E new_transactions \in BOOLEAN :
                report_transactions_calls' =
                    report_transactions(report_transactions_calls, new_transactions)
          /\ sync_pc' = AfterRangeGoesTo(scanner.value.priorities_changed)
          /\ IF scanner.value.priorities_changed
             THEN UNCHANGED scan_ranges
             ELSE scan_ranges' = Tail(scan_ranges)
          /\ UNCHANGED <<sync_result, cancel_observed, permanent_failure>>
       \/ /\ RetriedRequestFails
          /\ UNCHANGED <<sync_status, scan_ranges, update_status_calls,
                         report_transactions_calls>>
    /\ EndDownloadAndScan
    /\ UNCHANGED <<chunks_scanned, scanner_status_calls>>
    /\ UNCHANGED <<faults, wallet_queue, wallet_scanned>>

\* caught_up: the last update_status, then the return of a one-shot sync or the report
\* before the mempool wait (sync.rs:337-344)
CaughtUp ==
    /\ OrchFrame
    /\ sync_pc = "caught_up"
    /\ sync_status' = update_status(sync_status, wallet_birthday, wallet_scanned)
    /\ IF ~continually
       THEN /\ Return(OkResult(sync_status'))
            /\ UNCHANGED update_status_calls
       ELSE /\ sync_pc' = "watch_mempool"
            /\ update_status_calls' = report_status(update_status_calls)
            /\ UNCHANGED sync_result
    /\ UNCHANGED <<chunks_scanned, scanner_status_calls, report_transactions_calls>>
    /\ UNCHANGED <<faults, permanent_failure, cancel_observed, wallet_queue, wallet_scanned,
                   scan_ranges, pipeVars, blocks>>

\* select! takes `state.cancellation_token.cancelled()` during the mempool wait (sync.rs:351)
MempoolWaitCancelled ==
    /\ MempoolFrame
    /\ mempool_messages' = 0
    /\ UNCHANGED sinkVars
    /\ sync_pc = "watch_mempool"
    /\ cancellation_token
    /\ Return(Err(Error("TonicStatus", "Cancelled")))
    /\ cancel_observed' = "mempool"
    /\ UNCHANGED <<faults, permanent_failure, wallet_queue, wallet_scanned, sync_status,
                   scan_ranges, pipeVars, blocks>>

\* A slip that returns from watch_mempool on the first message of the stream.
WatchAfterMessageReturns == "fetch_tip"

\* watch_mempool's `while let Some(_tx) = response.message().await? {}` (sync.rs:926): after
\* a message the loop reads on, and sync() stays in its select!
WatchAfterMessage == "watch_mempool"

\* The most messages a mempool stream yields before it ends
MaxMempoolMessages == 1

\* The mempool stream yields a message (a transaction entered the mempool)
MempoolMessage ==
    /\ MempoolFrame
    /\ UNCHANGED sinkVars
    /\ sync_pc = "watch_mempool"
    /\ ~cancellation_token
    /\ mempool_messages < MaxMempoolMessages
    /\ mempool_messages' = mempool_messages + 1
    /\ sync_pc' = WatchAfterMessage
    /\ UNCHANGED <<faults, permanent_failure, cancel_observed, wallet_queue, wallet_scanned,
                   sync_status, scan_ranges, sync_result, pipeVars, blocks>>

\* select! takes watch_mempool, whatever it returned (sync.rs:352, :923-929): the stream
\* ended (the server closes it when a block is mined), or the request or a read of the
\* stream failed; the loop starts over
MempoolWaitEnds ==
    /\ MempoolFrame
    /\ mempool_messages' = 0
    /\ UNCHANGED sinkVars
    /\ update_status_calls < MaxStatusCalls
    /\ sync_pc = "watch_mempool"
    /\ ~cancellation_token
    /\ sync_pc' = "fetch_tip"
    /\ UNCHANGED <<faults, permanent_failure, cancel_observed, wallet_queue, wallet_scanned,
                   sync_status, scan_ranges, sync_result, pipeVars, blocks>>

(***************************************************************************)
(* The host and the chain                                                  *)
(***************************************************************************)
\* What the steps of the host and of the chain leave alone
EnvFrame == UNCHANGED <<notSync, block_actions, faults, permanent_failure, walletVars,
                        continually, progress, mempool_messages, sync_pc, sync_status,
                        scan_ranges, sync_result, cancel_observed, pipeVars, sinkVars, blocks>>

\* The host calls cancel(id) while the sync call is in flight (interop.rs:241-248)
Cancel ==
    /\ EnvFrame
    /\ sync_pc # "returned"
    /\ ~cancellation_token
    /\ cancellation_token' = TRUE
    /\ UNCHANGED <<server_tip, fork_height, chain_grew>>

\* A block is mined.  sync() learns of the tip only through its tip fetch, so the block
\* is shown arriving when the fetch, or the mempool wait that precedes it, is next.
NewBlock ==
    /\ EnvFrame
    /\ sync_pc \in {"fetch_tip", "watch_mempool"}
    /\ server_tip < MaxHeight
    /\ server_tip' = server_tip + 1
    /\ chain_grew' = TRUE
    /\ UNCHANGED <<fork_height, cancellation_token>>

\* A reorg replaces the blocks from some height on.  sync() sees blocks only as its
\* downloader streams them, so the reorg is shown happening when a stream read is next.
Reorg ==
    /\ EnvFrame
    /\ download_pc = "try_next"
    /\ fork_height = NoFork
    /\ \E h \in 1 .. server_tip : fork_height' = h
    /\ UNCHANGED <<server_tip, chain_grew, cancellation_token>>

\* A sync call starts, for every chain, wallet and mode
SyncStart ==
    /\ server_tip \in WalletHeights
    /\ fork_height = NoFork
    /\ block_actions \in BlockActionPatterns
    /\ faults = 0
    /\ permanent_failure = FALSE
    /\ chain_grew = FALSE
    /\ wallet_birthday \in 1 .. server_tip
    /\ wallet_queue \in {[h \in wallet_birthday .. c |-> "Historic"] :
                            c \in wallet_birthday - 1 .. server_tip}
    /\ wallet_scanned = << >>
    /\ truncations = << >>
    /\ continually \in BOOLEAN
    /\ cancellation_token = FALSE
    /\ sync_pc = "get_lightd_info"
    /\ sync_status = SyncUpdateData(0, 0, None, 0)
    /\ scan_ranges = << >>
    /\ sync_result = Pending
    /\ cancel_observed = "none"
    /\ mempool_messages = 0
    /\ PipeIdle
    /\ update_status_calls = 0
    /\ scanner_status_calls = 0
    /\ report_transactions_calls = 0
    /\ chunks_scanned = 0

\* sync() called without a progress sink
SyncInit == SyncStart /\ progress = FALSE

\* sync() called with a progress sink
SyncInitProgress == SyncStart /\ progress = TRUE

\* No sync call, for the specifications of the other components
SyncIdle ==
    /\ server_tip = 1
    /\ fork_height = NoFork
    /\ block_actions = [h \in WalletHeights |-> 0]
    /\ faults = 0
    /\ permanent_failure = FALSE
    /\ chain_grew = FALSE
    /\ wallet_birthday = 1
    /\ wallet_queue = << >>
    /\ wallet_scanned = << >>
    /\ truncations = << >>
    /\ continually = FALSE
    /\ progress = FALSE
    /\ cancellation_token = FALSE
    /\ sync_pc = "returned"
    /\ sync_status = SyncUpdateData(0, 0, None, 0)
    /\ scan_ranges = << >>
    /\ sync_result = Pending
    /\ cancel_observed = "none"
    /\ mempool_messages = 0
    /\ PipeIdle
    /\ update_status_calls = 0
    /\ scanner_status_calls = 0
    /\ report_transactions_calls = 0
    /\ chunks_scanned = 0

SyncNext ==
    \/ GetLightdInfo
    \/ UpdateSubtreeRoots
    \/ FetchTip
    \/ DiscoverTransparent
    \/ VerifyRanges
    \/ VerifyJoined
    \/ ScanRemaining
    \/ NextRange
    \/ RangeJoined
    \/ AfterRange
    \/ CaughtUp
    \/ MempoolWaitCancelled
    \/ MempoolMessage
    \/ MempoolWaitEnds
    \/ DownloadGetBlockRange
    \/ DownloadTryNext
    \/ DownloadGetTreeState
    \/ DownloadSend
    \/ DownloadSendPanics
    \/ ScannerRecv
    \/ ScannerRecvNone
    \/ ScannerCancelled
    \/ ScannerScanBlocks
    \/ ScannerRemoveRange
    \/ ScannerReport
    \/ Cancel
    \/ NewBlock
    \/ Reorg

(***************************************************************************)
(* analysis.rs, get_user_balances                                          *)
(***************************************************************************)
\* FeeRule::standard().marginal_fee(), in zatoshis (ZIP 317; lightwallet.rs:15 spells out
\* the same value as MARGINAL_FEE)
marginal_fee == 5000

\* zip317::MINIMUM_FEE, in zatoshis
MINIMUM_FEE == 10000

\* The most rows the query delivers
MaxNotes == 2

\* The values of notes and UTXOs: one below the marginal fee, one above it
NoteValues == {marginal_fee - 1, 20 * marginal_fee}

\* output_pool: 0 transparent, 2 sapling, 3 orchard
Pools == {0, 2, 3}

NoAnchors == [some |-> FALSE]

\* What get_target_and_anchor_heights yields for the trusted and the untrusted policy:
\* the trusted anchor asks for no more confirmations than the untrusted one
Anchors ==
    {NoAnchors} \cup
    {a \in [some : {TRUE}, trusted : WalletHeights, untrusted : WalletHeights] :
        a.untrusted <= a.trusted}

\* The rows of GET_UNSPENT_NOTES: `block` is None for a transaction that is not mined;
\* the rows of the UNION's second half (UTXOs) have pool 0, key scope 0, is_change 0
NoteRows ==
    {[block |-> b, value |-> v, output_pool |-> p, recipient_key_scope |-> k, is_change |-> c] :
        b \in WalletHeights \cup {None}, v \in NoteValues, p \in Pools \ {0},
        k \in {0, 1}, c \in BOOLEAN}
    \cup
    {[block |-> b, value |-> v, output_pool |-> 0, recipient_key_scope |-> 0,
      is_change |-> FALSE] : b \in WalletHeights \cup {None}, v \in NoteValues}

NoRow == [block |-> None, value |-> 0, output_pool |-> 0, recipient_key_scope |-> 0,
          is_change |-> FALSE]

\* UserBalances { ..Default::default() }
DefaultBalances ==
    [spendable |-> 0, immature_change |-> 0, minimum_fees |-> 0, immature_income |-> 0,
     dust |-> 0, incoming |-> 0, incoming_dust |-> 0]

\* A slip that takes every row for mature.
IsMatureAlways(row, a) == TRUE

\* is_mature: the row's block is at or below the anchor of the row's key scope
IsMature(row, a) ==
    LET relevant_anchor == IF row.recipient_key_scope = 1 THEN a.trusted ELSE a.untrusted
    IN row.block # None /\ row.block <= relevant_anchor

\* A slip that charges the fee unit for every note that is not dust, mature or not.
CountsTowardFeeAlways(row, a) == TRUE

\* The fee field only tracks mature income and change: if is_change || is_mature
CountsTowardFee(row, a) == row.is_change \/ IsMature(row, a)

\* The body of the while loop over the rows
AddRow(b, row, a) ==
    LET is_dust == row.value < marginal_fee
        is_shielded == row.output_pool > 1
        is_mature == IsMature(row, a)
        is_spendable == is_mature /\ is_shielded
        unconfirmed_income == ~row.is_change /\ row.block = None
        b1 == IF unconfirmed_income
              THEN [b EXCEPT !.incoming = @ + row.value,
                             !.incoming_dust = IF is_dust THEN @ + row.value ELSE @]
              ELSE b
    IN IF is_dust
       THEN IF row.block # None THEN [b1 EXCEPT !.dust = @ + row.value] ELSE b1
       ELSE LET b2 == IF CountsTowardFee(row, a)
                      THEN [b1 EXCEPT !.minimum_fees = @ + marginal_fee]
                      ELSE b1
            IN IF is_spendable THEN [b2 EXCEPT !.spendable = @ + row.value]
               ELSE IF row.block # None
                    THEN IF row.is_change
                         THEN [b2 EXCEPT !.immature_change = @ + row.value]
                         ELSE [b2 EXCEPT !.immature_income = @ + row.value]
                    ELSE b2

\* After the loop: the receiving note's fee unit and the protocol's minimum
AddReceivingNote(b) ==
    IF b.minimum_fees > 0
    THEN LET fees == b.minimum_fees + marginal_fee
         IN [b EXCEPT !.minimum_fees = IF fees < MINIMUM_FEE THEN MINIMUM_FEE ELSE fees]
    ELSE b

\* What get_wallet_summary may report for the account: the wallet store's own figures
AccountBalances ==
    [spendable_value : {0, 20 * marginal_fee},
     change_pending_confirmation : {0, 20 * marginal_fee},
     uneconomic_value : {0, marginal_fee - 1}]

BalanceInit ==
    /\ balance_pc = "anchors"
    /\ anchors = NoAnchors
    /\ balances = DefaultBalances
    /\ rows_read = 0
    /\ last_row = NoRow
    /\ user_balances = Pending

BalanceIdle == BalanceInit

\* get_target_and_anchor_heights for both policies; without anchors the default is returned
GetAnchorHeights ==
    /\ UNCHANGED notBalance
    /\ balance_pc = "anchors"
    /\ \E a \in Anchors :
        /\ anchors' = a
        /\ IF a.some
           THEN /\ balance_pc' = "rows"
                /\ user_balances' = user_balances
           ELSE /\ balance_pc' = "returned"
                /\ user_balances' = OkResult(DefaultBalances)
    /\ UNCHANGED <<balances, rows_read, last_row>>

\* rows.next() yields a row
NextRow ==
    /\ UNCHANGED notBalance
    /\ balance_pc = "rows"
    /\ rows_read < MaxNotes
    /\ \E row \in NoteRows :
        /\ balances' = AddRow(balances, row, anchors)
        /\ last_row' = row
    /\ rows_read' = rows_read + 1
    /\ UNCHANGED <<balance_pc, anchors, user_balances>>

\* rows.next() yields None
RowsEnd ==
    /\ UNCHANGED notBalance
    /\ balance_pc = "rows"
    /\ balances' = AddReceivingNote(balances)
    /\ balance_pc' = "summary"
    /\ UNCHANGED <<anchors, rows_read, last_row, user_balances>>

\* get_wallet_summary yields None: the computed balances are returned
NoWalletSummary ==
    /\ UNCHANGED notBalance
    /\ balance_pc = "summary"
    /\ balance_pc' = "returned"
    /\ user_balances' = OkResult(balances)
    /\ UNCHANGED <<anchors, balances, rows_read, last_row>>

\* get_wallet_summary yields the account's balances, which override three fields
WalletSummary ==
    /\ UNCHANGED notBalance
    /\ balance_pc = "summary"
    /\ \E account_balance \in AccountBalances :
        balances' = [balances EXCEPT
                        !.spendable = account_balance.spendable_value,
                        !.immature_change = account_balance.change_pending_confirmation,
                        !.dust = account_balance.uneconomic_value]
    /\ balance_pc' = "returned"
    /\ user_balances' = OkResult(balances')
    /\ UNCHANGED <<anchors, rows_read, last_row>>

\* get_wallet_summary yields a summary without the account
SummaryWithoutAccount ==
    /\ UNCHANGED notBalance
    /\ balance_pc = "summary"
    /\ balance_pc' = "returned"
    /\ user_balances' = Err(Error("InvalidArgument", ""))
    /\ UNCHANGED <<anchors, balances, rows_read, last_row>>

BalanceNext ==
    \/ GetAnchorHeights
    \/ NextRow
    \/ RowsEnd
    \/ NoWalletSummary
    \/ WalletSummary
    \/ SummaryWithoutAccount

(***************************************************************************)
(* send.rs, transmit_transaction                                           *)
(***************************************************************************)
\* The transaction ids of the model
MaxTxid == 3

TxIds == 1 .. MaxTxid

\* The largest magnitude of a SendResponse.error_code (an i32: negative codes too)
MaxErrorCode == 2

ErrorCodes == (0 - MaxErrorCode) .. MaxErrorCode

ErrorMessages == {"", "bad-txns-inputs-missingorspent", "tx-expiring-soon"}

\* service::SendResponse
SendResponse(error_code, error_message) ==
    [error_code |-> error_code, error_message |-> error_message]

SendResponses == {SendResponse(c, m) : c \in ErrorCodes, m \in ErrorMessages}

\* Error::SendFailed { code, reason }
SendFailed(code, reason) == [variant |-> "SendFailed", code |-> code, reason |-> reason]

\* SendTransactionResult { txid }
SendTransactionResult(txid) == [txid |-> txid]

\* A slip that reports a failure only for positive codes.
ResultOfResponsePositiveOnly(txid, resp) ==
    IF resp.error_code > 0
    THEN Err(SendFailed(resp.error_code, resp.error_message))
    ELSE OkResult(SendTransactionResult(txid))

\* if response.error_code != 0 { Err(SendFailed {..}) } else { Ok(SendTransactionResult { txid }) }
ResultOfResponse(txid, resp) ==
    IF resp.error_code # 0
    THEN Err(SendFailed(resp.error_code, resp.error_message))
    ELSE OkResult(SendTransactionResult(txid))

SendInit ==
    /\ send_pc = "get_client"
    /\ send_txid \in TxIds
    /\ submissions = 0
    /\ send_response = NoResponse
    /\ send_result = Pending

SendIdle ==
    /\ send_pc = "get_client"
    /\ send_txid = 1
    /\ submissions = 0
    /\ send_response = NoResponse
    /\ send_result = Pending

SendReturns(result) ==
    /\ send_pc' = "returned"
    /\ send_result' = result

\* get_client(server_uri).await?
SendGetClient ==
    /\ UNCHANGED notSend
    /\ send_pc = "get_client"
    /\ \/ /\ send_pc' = "get_transaction"
          /\ send_result' = send_result
       \/ SendReturns(Err(Error("Transport", "")))
    /\ UNCHANGED <<send_txid, submissions, send_response>>

\* db.get_transaction(txid)?.ok_or(Error::Internal("Transaction not found"))
SendGetTransaction ==
    /\ UNCHANGED notSend
    /\ send_pc = "get_transaction"
    /\ \/ /\ send_pc' = "send_transaction"
          /\ send_result' = send_result
       \/ SendReturns(Err(Error("Internal", "")))
       \/ SendReturns(Err(Error("Sqlite", "")))
    /\ UNCHANGED <<send_txid, submissions, send_response>>

\* client.send_transaction(raw_tx).await: the one request, answered by a SendResponse
SendTransactionAnswered ==
    /\ UNCHANGED notSend
    /\ send_pc = "send_transaction"
    /\ submissions' = submissions + 1
    /\ \E resp \in SendResponses : send_response' = resp
    /\ send_pc' = "response"
    /\ UNCHANGED <<send_txid, send_result>>

\* client.send_transaction(raw_tx).await?: the one request fails in the transport
SendTransactionFails ==
    /\ UNCHANGED notSend
    /\ send_pc = "send_transaction"
    /\ submissions' = submissions + 1
    /\ \E c \in Codes : SendReturns(Err(Error("TonicStatus", c)))
    /\ UNCHANGED <<send_txid, send_response>>

\* The check of response.error_code
SendCheckResponse ==
    /\ UNCHANGED notSend
    /\ send_pc = "response"
    /\ SendReturns(ResultOfResponse(send_txid, send_response))
    /\ UNCHANGED <<send_txid, submissions, send_response>>

SendNext ==
    \/ SendGetClient
    \/ SendGetTransaction
    \/ SendTransactionAnswered
    \/ SendTransactionFails
    \/ SendCheckResponse

(***************************************************************************)
(* interop.rs, cancellation ids                                            *)
(***************************************************************************)

\* The most operations that take a cancellation token in one run
MaxOperations == 3

Operations == 1 .. MaxOperations

\* HashMap::new() (interop.rs:203)
NoTokens == [id \in {} |-> 0]

NoOperation == [pc |-> "idle", id |-> None]

NoCancelCall == [seq |-> 0, id |-> None, result |-> "none"]

\* A slip that hands out the counter without advancing it.
fetch_add_nothing(counter) == counter

\* TOKEN_COUNTER.fetch_add(1, Ordering::SeqCst) (interop.rs:227): the counter afterwards;
\* an AtomicU32 wraps around
fetch_add(counter) == (counter + 1) % (U32Max + 1)

\* tokens.insert(handle, token.clone()) (interop.rs:229)
insert_token(tokens, handle, token) ==
    [id \in DOMAIN tokens \cup {handle} |-> IF id = handle THEN token ELSE tokens[id]]

\* tokens.remove(&id) (interop.rs:214, :243)
remove_token(tokens, id) == [k \in DOMAIN tokens \ {id} |-> tokens[k]]

\* The registry of a process that has handed out no id yet, or whose counter is about
\* to wrap around, with no operation in flight
CancelInit ==
    /\ CANCELLATION_TOKENS = NoTokens
    /\ TOKEN_COUNTER \in {1, U32Max}
    /\ operations = [o \in Operations |-> NoOperation]
    /\ token_cancelled = [o \in Operations |-> FALSE]
    /\ cancel_call = NoCancelCall

CancelIdle ==
    /\ CANCELLATION_TOKENS = NoTokens
    /\ TOKEN_COUNTER = 1
    /\ operations = [o \in Operations |-> NoOperation]
    /\ token_cancelled = [o \in Operations |-> FALSE]
    /\ cancel_call = NoCancelCall

\* get_cancellation_token(Some(source)) (interop.rs:223-236): under the lock the id is
\* drawn and the new token registered; the source is told the id
GetCancellationTokenWithSource(o) ==
    /\ UNCHANGED notCancel
    /\ operations[o].pc = "idle"
    /\ LET handle == TOKEN_COUNTER
       IN  /\ TOKEN_COUNTER' = fetch_add(TOKEN_COUNTER)
           /\ CANCELLATION_TOKENS' = insert_token(CANCELLATION_TOKENS, handle, o)
           /\ operations' = [operations EXCEPT ![o] = [pc |-> "running", id |-> handle]]
    /\ UNCHANGED <<token_cancelled, cancel_call>>

\* get_cancellation_token(None) (interop.rs:237): a token of its own, with no id
GetCancellationTokenWithoutSource(o) ==
    /\ UNCHANGED notCancel
    /\ operations[o].pc = "idle"
    /\ operations' = [operations EXCEPT ![o] = [pc |-> "running", id |-> None]]
    /\ UNCHANGED <<CANCELLATION_TOKENS, TOKEN_COUNTER, token_cancelled, cancel_call>>

\* cancel(id) (interop.rs:241-248)
cancel(id) ==
    /\ UNCHANGED notCancel
    /\ IF id \in DOMAIN CANCELLATION_TOKENS
       THEN /\ token_cancelled' =
                   [token_cancelled EXCEPT ![CANCELLATION_TOKENS[id]] = TRUE]
            /\ CANCELLATION_TOKENS' = remove_token(CANCELLATION_TOKENS, id)
       ELSE UNCHANGED <<CANCELLATION_TOKENS, token_cancelled>>
    /\ cancel_call' = [seq |-> 1 - cancel_call.seq, id |-> id, result |-> "Ok"]
    /\ UNCHANGED <<TOKEN_COUNTER, operations>>

\* The operation ends and its InteropCancellationToken is dropped (interop.rs:210-217)
DropInteropCancellationToken(o) ==
    /\ UNCHANGED notCancel
    /\ operations[o].pc = "running"
    /\ operations' = [operations EXCEPT ![o].pc = "finished"]
    /\ CANCELLATION_TOKENS' =
           IF operations[o].id # None
           THEN remove_token(CANCELLATION_TOKENS, operations[o].id)
           ELSE CANCELLATION_TOKENS
    /\ UNCHANGED <<TOKEN_COUNTER, token_cancelled, cancel_call>>

GetWithSource == \E o \in Operations : GetCancellationTokenWithSource(o)

GetWithoutSource == \E o \in Operations : GetCancellationTokenWithoutSource(o)

CancelCalled == \E id \in Keys : cancel(id)

OperationEnds == \E o \in Operations : DropInteropCancellationToken(o)

CancelNext ==
    \/ GetWithSource
    \/ GetWithoutSource
    \/ CancelCalled
    \/ OperationEnds

(***************************************************************************)
(* grpc.rs, get_grpc_channel and destroy_channel                           *)
(***************************************************************************)

\* The most calls of get_grpc_channel in one run
MaxCallers == 2

Callers == 1 .. MaxCallers

\* The number of server URIs
MaxUris == 2

Uris == 1 .. MaxUris

\* HashMap::new() (grpc.rs:9)
NoChannels == [uri \in {} |-> 0]

NoChannel == 0

NoCaller == [pc |-> "idle", uri |-> 0, channel |-> NoChannel, result |-> Pending]

NoDestroyCall == [seq |-> 0, uri |-> 0, result |-> FALSE]

\* clients.insert(uri, channel.clone()) (grpc.rs:28)
insert_channel(clients, uri, new_channel) ==
    [u \in DOMAIN clients \cup {uri} |-> IF u = uri THEN new_channel ELSE clients[u]]

\* clients.remove(&uri) (grpc.rs:39): the map afterwards
remove_channel(clients, uri) == [u \in DOMAIN clients \ {uri} |-> clients[u]]

\* The channels connected so far for the URI
ChannelsCreatedFor(uri) == {ch \in DOMAIN channels_created : channels_created[ch] = uri}

GrpcInit ==
    /\ CHANNELS = NoChannels
    /\ callers = [c \in Callers |-> NoCaller]
    /\ channels_created = <<>>
    /\ destroyed = {}
    /\ destroy_call = NoDestroyCall

GrpcIdle == GrpcInit

\* get_grpc_channel, the first critical section (grpc.rs:14-19): the cached channel is
\* returned, or the lock is released to connect
GetGrpcChannelLookup(c, uri) ==
    /\ UNCHANGED notGrpc
    /\ callers[c].pc = "idle"
    /\ callers' = [callers EXCEPT ![c] =
           IF uri \in DOMAIN CHANNELS
           THEN [pc |-> "returned", uri |-> uri, channel |-> NoChannel,
                 result |-> OkResult(CHANNELS[uri])]
           ELSE [pc |-> "connect", uri |-> uri, channel |-> NoChannel,
                 result |-> Pending]]
    /\ UNCHANGED <<CHANNELS, channels_created, destroyed, destroy_call>>

\* Channel::builder(uri).tls_config(tls)?.connect().await? succeeds (grpc.rs:21-25),
\* with the lock not held
GetGrpcChannelConnected(c) ==
    /\ UNCHANGED notGrpc
    /\ callers[c].pc = "connect"
    /\ channels_created' = Append(channels_created, callers[c].uri)
    /\ callers' = [callers EXCEPT ![c].pc = "insert",
                                  ![c].channel = Len(channels_created) + 1]
    /\ UNCHANGED <<CHANNELS, destroyed, destroy_call>>

\* tls_config or connect fails (grpc.rs:23, :25)
GetGrpcChannelConnectFails(c) ==
    /\ UNCHANGED notGrpc
    /\ callers[c].pc = "connect"
    /\ callers' = [callers EXCEPT ![c].pc = "returned",
                                  ![c].result = Err(Error("Transport", ""))]
    /\ UNCHANGED <<CHANNELS, channels_created, destroyed, destroy_call>>

\* get_grpc_channel, the second critical section (grpc.rs:27-29)
GetGrpcChannelInsert(c) ==
    /\ UNCHANGED notGrpc
    /\ callers[c].pc = "insert"
    /\ CHANNELS' = insert_channel(CHANNELS, callers[c].uri, callers[c].channel)
    /\ callers' = [callers EXCEPT ![c].pc = "returned",
                                  ![c].result = OkResult(callers[c].channel)]
    /\ UNCHANGED <<channels_created, destroyed, destroy_call>>

\* destroy_channel(uri) (grpc.rs:37-40)
destroy_channel(uri) ==
    /\ UNCHANGED notGrpc
    /\ CHANNELS' = remove_channel(CHANNELS, uri)
    /\ destroy_call' = [seq |-> 1 - destroy_call.seq, uri |-> uri,
                        result |-> uri \in DOMAIN CHANNELS]
    /\ destroyed' = destroyed \cup {uri}
    /\ UNCHANGED <<callers, channels_created>>

GrpcLookup == \E c \in Callers, uri \in Uris : GetGrpcChannelLookup(c, uri)

GrpcConnected == \E c \in Callers : GetGrpcChannelConnected(c)

GrpcConnectFails == \E c \in Callers : GetGrpcChannelConnectFails(c)

GrpcInsert == \E c \in Callers : GetGrpcChannelInsert(c)

GrpcDestroy == \E uri \in Uris : destroy_channel(uri)

GrpcNext ==
    \/ GrpcLookup
    \/ GrpcConnected
    \/ GrpcConnectFails
    \/ GrpcInsert
    \/ GrpcDestroy

(***************************************************************************)
(* Specifications                                                          *)
(***************************************************************************)
\* The retry helpers alone
InitRetry == RetryInit /\ CacheIdle /\ ChunkIdle /\ GapIdle /\ SyncIdle /\ BalanceIdle /\ SendIdle /\ CancelIdle /\ GrpcIdle /\ DiscoverIdle

SpecRetry == InitRetry /\ [][RetryNext]_vars

\* The helper before it is called, for the specifications of the other components
RetryIdle == RetryInit /\ helper = "retry"

\* The block cache alone
InitCache == RetryIdle /\ CacheInit /\ ChunkIdle /\ GapIdle /\ SyncIdle /\ BalanceIdle /\ SendIdle /\ CancelIdle /\ GrpcIdle /\ DiscoverIdle

SpecCache == InitCache /\ [][CacheNext]_vars

\* The chunk iterator alone
InitChunk == RetryIdle /\ CacheIdle /\ ChunkInit /\ GapIdle /\ SyncIdle /\ BalanceIdle /\ SendIdle /\ CancelIdle /\ GrpcIdle /\ DiscoverIdle

SpecChunk == InitChunk /\ [][ChunkNext]_vars

\* The gap-limit fill alone
InitGap == RetryIdle /\ CacheIdle /\ ChunkIdle /\ GapInit /\ SyncIdle /\ BalanceIdle /\ SendIdle /\ CancelIdle /\ GrpcIdle /\ DiscoverIdle

SpecGap == InitGap /\ [][GapNext]_vars

\* A sync call, with its download/scan pipeline, the host and the chain
InitSync == RetryIdle /\ CacheIdle /\ ChunkIdle /\ GapIdle /\ SyncInit /\ BalanceIdle /\ SendIdle /\ CancelIdle /\ GrpcIdle /\ DiscoverIdle

SpecSync == InitSync /\ [][SyncNext]_vars

\* The steps of the downloader task of download_and_scan_blocks
DownloaderNext ==
    \/ DownloadGetBlockRange
    \/ DownloadTryNext
    \/ DownloadGetTreeState
    \/ DownloadSend
    \/ DownloadSendPanics

\* A sync call that reports to a progress sink
InitSyncProgress ==
    RetryIdle /\ CacheIdle /\ ChunkIdle /\ GapIdle /\ SyncInitProgress /\ BalanceIdle /\ SendIdle /\ CancelIdle /\ GrpcIdle /\ DiscoverIdle

SpecSyncProgress == InitSyncProgress /\ [][SyncNext]_vars

\* get_user_balances alone
InitBalance ==
    RetryIdle /\ CacheIdle /\ ChunkIdle /\ GapIdle /\ SyncIdle /\ BalanceInit /\ SendIdle /\ CancelIdle /\ GrpcIdle /\ DiscoverIdle

SpecBalance == InitBalance /\ [][BalanceNext]_vars

\* transmit_transaction alone
InitSend ==
    RetryIdle /\ CacheIdle /\ ChunkIdle /\ GapIdle /\ SyncIdle /\ BalanceIdle /\ SendInit /\ CancelIdle /\ GrpcIdle /\ DiscoverIdle

SpecSend == InitSend /\ [][SendNext]_vars

\* The registry of cancellation tokens alone
InitCancel ==
    RetryIdle /\ CacheIdle /\ ChunkIdle /\ GapIdle /\ SyncIdle /\ BalanceIdle /\ SendIdle
    /\ CancelInit /\ GrpcIdle /\ DiscoverIdle

SpecCancel == InitCancel /\ [][CancelNext]_vars

\* The transparent discovery loop alone
InitDiscover ==
    RetryIdle /\ CacheIdle /\ ChunkIdle /\ SyncIdle /\ BalanceIdle /\ SendIdle
    /\ CancelIdle /\ GrpcIdle /\ DiscoverInit

SpecDiscover == InitDiscover /\ [][DiscoverNext]_vars

\* The loop's task is polled until it returns
SpecDiscoverFair == SpecDiscover /\ WF_vars(DiscoverNext)

\* The shared gRPC channels alone
InitGrpc ==
    RetryIdle /\ CacheIdle /\ ChunkIdle /\ GapIdle /\ SyncIdle /\ BalanceIdle /\ SendIdle
    /\ CancelIdle /\ GrpcInit /\ DiscoverIdle

SpecGrpc == InitGrpc /\ [][GrpcNext]_vars

(***************************************************************************)
(* Claims about resilience.rs                                              *)
(***************************************************************************)

\* C5: with a token that never fires, webrequest_with_retry that returns an error of a
\* retryable code has invoked the delegate exactly ATTEMPT_LIMIT + 1 times, has waited
\* out one sleep between consecutive attempts, and returns the last attempt's status
\* unchanged; when it returns Ok, the value is that of the last attempt invoked, and
\* one sleep was waited out before every attempt but the first.
C5_RetryExhaustion ==
    (helper = "retry" /\ rpc = "returned" /\ ~retry_token) =>
        /\ sleeps = invocations - 1
        /\ failure_count = sleeps
        /\ retry_result.tag = "Ok" => retry_result.value = invocations
        /\ (retry_result.tag = "Err" /\ retry_result.status.code # "Cancelled") =>
               /\ invocations = ATTEMPT_LIMIT + 1
               /\ retry_result.status = last_status
               /\ retry_result.status.message = invocations

\* C5 witness: webrequest_with_retry has returned the fourth attempt's retryable error.
C5_Witness ==
    /\ helper = "retry" /\ rpc = "returned" /\ ~retry_token
    /\ retry_result.tag = "Err" /\ retry_result.status.code = "Unavailable"
    /\ invocations = ATTEMPT_LIMIT + 1 /\ sleeps = ATTEMPT_LIMIT

\* C6 as stated: in either helper, a token fired during the backoff sleep ends the call
\* with the cancelled result, the sleep is not waited out and the delegate is not invoked
\* again; a token fired while an attempt is in flight ends the call the same way.
C6_CancelInterruptsEveryHelper ==
    /\ cancel_seen = "sleep" =>
           /\ rpc \in {"sleep", "returned"}
           /\ ~timer_elapsed
           /\ rpc = "returned" => retry_result = ErrResult(RequestCancelled)
    /\ cancel_seen = "in_flight" =>
           /\ rpc \in {"select_request", "returned"}
           /\ rpc = "returned" => retry_result = ErrResult(RequestCancelled)

\* C7 as stated: in either helper, an attempt that failed with code Cancelled ends the
\* call at once with a cancelled error: no sleep follows, no further invocation.
C7_CancelledStatusNeverRetried ==
    last_status.code = "Cancelled" =>
        /\ rpc = "returned"
        /\ retry_result.tag = "Err"
        /\ retry_result.status.code = "Cancelled"
        /\ invocations = last_status.message

(***************************************************************************)
(* Claims about block_source.rs                                            *)
(***************************************************************************)

\* The keys under which the blocks of a vector are cached
KeysOf(vec) == {AsU32(vec[i].height) : i \in 1 .. Len(vec)}

\* The last block of a vector cached under key k
LastWithKey(vec, k) ==
    LET at == {i \in 1 .. Len(vec) : AsU32(vec[i].height) = k}
    IN vec[CHOOSE i \in at : \A j \in at : j <= i]

\* C10: right after insert_range(vec), with_blocks over one height delivers, for every
\* height under which a block of vec was inserted, exactly the block inserted there (the
\* last one of vec for that height), whether or not the height was cached before; every
\* height under which no block of vec was inserted is cached, or absent, as before.
C10_InsertThenLookup ==
    cache_op.name = "insert_range" =>
        /\ \A k \in KeysOf(cache_op.vec) :
               with_blocks(blocks, k, 1) =
                   [tag |-> "Ok", rows |-> <<LastWithKey(cache_op.vec, k)>>]
        /\ \A k \in Keys \ KeysOf(cache_op.vec) :
               /\ k \in DOMAIN blocks <=> k \in DOMAIN cache_op.before
               /\ k \in DOMAIN blocks => blocks[k] = cache_op.before[k]

\* C10 witness: an insert_range replaced a cached block by a different one and left
\* another cached height alone.
C10_Witness ==
    /\ cache_op.name = "insert_range"
    /\ \E k \in KeysOf(cache_op.vec) :
           /\ k \in DOMAIN cache_op.before
           /\ cache_op.before[k] # blocks[k]
    /\ \E k \in DOMAIN cache_op.before : k \notin KeysOf(cache_op.vec)

\* C11: remove_range([s, e)) removes exactly the cached heights h with s <= h < e: a
\* height is cached afterwards iff it was cached before and lies outside [s, e), and
\* every height still cached holds the block it held before.  The block at e and the
\* blocks below s therefore stay, and a range with s >= e removes nothing.
C11_RemoveRangeExact ==
    cache_op.name = "remove_range" =>
        /\ \A k \in Keys :
               /\ k \in DOMAIN blocks <=>
                      /\ k \in DOMAIN cache_op.before
                      /\ ~(cache_op.start <= k /\ k < cache_op.end)
               /\ k \in DOMAIN blocks => blocks[k] = cache_op.before[k]
        /\ cache_op.start >= cache_op.end => blocks = cache_op.before

\* C11 witness: a remove_range of a non-empty range removed a cached block and left a
\* cached block at its end height and one below its start.
C11_Witness ==
    /\ cache_op.name = "remove_range"
    /\ cache_op.start < cache_op.end
    /\ cache_op.end \in DOMAIN cache_op.before
    /\ cache_op.end \in DOMAIN blocks
    /\ \E k \in DOMAIN blocks : k < cache_op.start
    /\ \E k \in DOMAIN cache_op.before : k \notin DOMAIN blocks

\* C12: after truncate_to_height(h) no cached height is greater than h, and every block
\* cached before at a height <= h, h included, is still cached unchanged.
C12_TruncateKeepsUpToHeight ==
    cache_op.name = "truncate_to_height" =>
        /\ \A k \in DOMAIN blocks : k <= cache_op.height
        /\ \A k \in DOMAIN cache_op.before :
               k <= cache_op.height =>
                   /\ k \in DOMAIN blocks
                   /\ blocks[k] = cache_op.before[k]

\* C12 witness: a truncate_to_height(h) dropped a cached block above h and kept the
\* block cached at h itself.
C12_Witness ==
    /\ cache_op.name = "truncate_to_height"
    /\ cache_op.height \in DOMAIN cache_op.before
    /\ cache_op.height \in DOMAIN blocks
    /\ \E k \in DOMAIN cache_op.before : k > cache_op.height

\* The heights of [from, from + limit) that are not cached
AbsentIn(b, from_height, limit) ==
    {h \in from_height .. from_height + limit - 1 : h \notin DOMAIN b}

LookupBeyondU32Max ==
    (/\ cache_op.name = "with_blocks"
     /\ cache_op.from_height # None
     /\ cache_op.limit # None) =>
        (cache_op.result.tag = "Ok" <=>
            AbsentIn(cache_op.before, cache_op.from_height, cache_op.limit) = {})

(***************************************************************************)
(* Claims about the chunk iterator                                         *)
(***************************************************************************)

\* C9: for a range r with r.start <= r.end, at every point of the iteration the chunks
\* yielded so far are non-empty, hold at most BATCH_SIZE heights, carry r's priority,
\* start at r.start and follow one another without gap or overlap, and what is left to
\* yield is exactly the rest of r (so each step shortens it: the iteration ends); when
\* the iterator has ended the chunks cover [r.start, r.end) exactly, and an empty range
\* has yielded no chunk.
C9_ChunksCoverRange ==
    /\ \A i \in 1 .. Len(chunks) :
           /\ chunks[i].start < chunks[i].end
           /\ chunks[i].end - chunks[i].start <= BATCH_SIZE
           /\ chunks[i].priority = chunk_range.priority
           /\ chunks[i].start = IF i = 1 THEN chunk_range.start ELSE chunks[i - 1].end
    /\ acc.start = IF chunks = << >> THEN chunk_range.start ELSE chunks[Len(chunks)].end
    /\ acc.end = chunk_range.end
    /\ acc.priority = chunk_range.priority
    /\ acc.start <= acc.end
    /\ chunk_done => acc.start = chunk_range.end
    /\ (chunk_done /\ chunk_range.start = chunk_range.end) => chunks = << >>
    /\ ~chunk_done => ENABLED ChunkNext

\* C9 witness: a range longer than two batches, not a multiple of the batch size, has
\* been split to its end.
C9_Witness ==
    /\ chunk_done
    /\ Len(chunks) >= 3
    /\ RangeLen(chunks[Len(chunks)]) < BATCH_SIZE
    /\ chunks[Len(chunks)].end = chunk_range.end

(***************************************************************************)
(* Claims about fill_in_taddrs_to_gap_limit                                *)
(***************************************************************************)

\* The address indices a list holds for an account, and those it holds as used
IndicesOf(list, a) == {list[i].index : i \in {j \in 1 .. Len(list) : list[j].account_id = a}}

UsedIn(list, a) ==
    {list[i].index : i \in {j \in 1 .. Len(list) : list[j].account_id = a /\ list[j].used}}

\* The highest used index of an account, -1 when it has no used address
HighestUsed(list, a) ==
    IF UsedIn(list, a) = {} THEN -1
    ELSE CHOOSE h \in UsedIn(list, a) : \A i \in UsedIn(list, a) : i <= h

\* The first index n that ends TADDR_INDEX_GAP_LIMIT consecutive indices, counted from
\* index 0, none of which the list holds as used
FirstGapEnd(list, a) ==
    LET ends == {n \in (TADDR_INDEX_GAP_LIMIT - 1) .. (MaxInputIndex + TADDR_INDEX_GAP_LIMIT) :
                    \A i \in (n - TADDR_INDEX_GAP_LIMIT + 1) .. n : i \notin UsedIn(list, a)}
    IN CHOOSE n \in ends : \A m \in ends : n <= m

\* The call appended what it returned and changed nothing else of the list.
OnlyAppended == taddrs = gap_call.before \o gap_call.added

C1_OneShotSyncScansToTip ==
    (/\ sync_pc = "returned"
     /\ sync_result.tag = "Ok"
     /\ ~continually
     /\ ~chain_grew
     /\ fork_height = NoFork
     /\ ~permanent_failure
     /\ ~cancellation_token) =>
        /\ sync_result.value.last_fully_scanned_block = server_tip
        /\ suggest_scan_ranges(wallet_queue) = << >>

C3_EitherFailureFailsRange ==
    (/\ try_join # Pending
     /\ \/ downloader.tag \in {"Err", "Panic"}
        \/ scanner.tag = "Err") =>
        try_join.tag = "Err"

\* C4 as stated: a sync call in which a suspension point took its cancelled branch has
\* failed, and its error reaches the host as LightWalletError::Canceled.
C4_CancelSurfacesAsCanceled ==
    (sync_pc = "returned" /\ cancel_observed # "none") =>
        /\ sync_result.tag = "Err"
        /\ LightWalletErrorFrom(sync_result.error) = "Canceled"

\* For comparison with C1: with no fault injected at all, the one-shot sync ends at the tip.
OneShotSyncWithoutFaults ==
    (/\ sync_pc = "returned"
     /\ sync_result.tag = "Ok"
     /\ ~continually
     /\ ~chain_grew
     /\ fork_height = NoFork
     /\ faults = 0
     /\ ~permanent_failure
     /\ ~cancellation_token) =>
        /\ sync_result.value.last_fully_scanned_block = server_tip
        /\ suggest_scan_ranges(wallet_queue) = << >>

\* For comparison with C4: cancellation seen by a retried request or by the mempool wait
\* does reach the host as LightWalletError::Canceled.
CancelSeenBySyncItself ==
    (sync_pc = "returned" /\ cancel_observed \in {"rpc", "mempool"}) =>
        /\ sync_result.tag = "Err"
        /\ LightWalletErrorFrom(sync_result.error) = "Canceled"

(***************************************************************************)
(* Claims about analysis.rs                                                *)
(***************************************************************************)

\* get_user_balances returned the balances of a wallet whose only unspent item is one
\* shielded note of 100,000 zatoshis that is not change
OnlyOneIncomeNote ==
    /\ balance_pc = "returned"
    /\ user_balances.tag = "Ok"
    /\ rows_read = 1
    /\ last_row.value = 20 * marginal_fee
    /\ last_row.output_pool > 1
    /\ ~last_row.is_change

\* The sum of two fee units, raised to the protocol's minimum
TwoUnitsOrFloor ==
    IF 2 * marginal_fee < MINIMUM_FEE THEN MINIMUM_FEE ELSE 2 * marginal_fee

\* C14 as stated: a single non-change shielded note of 100,000 zatoshis with 0
\* confirmations (its transaction is not mined) is counted as immature_income, and
\* minimum_fees is two marginal-fee units, raised to the protocol's minimum.
C14_UnminedNoteIsImmatureIncome ==
    (OnlyOneIncomeNote /\ last_row.block = None) =>
        /\ user_balances.value.immature_income = 20 * marginal_fee
        /\ user_balances.value.minimum_fees = TwoUnitsOrFloor

\* C14, amended: for a wallet whose only unspent item is one non-change shielded note of
\* 100,000 zatoshis, an unmined note (0 confirmations) is counted as incoming only, a
\* mined note above its anchor as immature_income only, both with minimum_fees 0; a
\* note at or below its anchor is in neither bucket and minimum_fees is two marginal-fee
\* units, raised to the protocol's minimum.
C14_SingleNoteBuckets ==
    OnlyOneIncomeNote =>
        LET b == user_balances.value
            v == last_row.value
        IN /\ last_row.block = None =>
                /\ b.incoming = v /\ b.incoming_dust = 0
                /\ b.immature_income = 0 /\ b.minimum_fees = 0
           /\ (last_row.block # None /\ ~IsMature(last_row, anchors)) =>
                /\ b.immature_income = v /\ b.incoming = 0
                /\ b.minimum_fees = 0
           /\ IsMature(last_row, anchors) =>
                /\ b.immature_income = 0 /\ b.incoming = 0
                /\ b.minimum_fees = TwoUnitsOrFloor

\* C14 witness: get_user_balances returned for a wallet holding just the unmined note,
\* with the whole value counted as incoming.
C14_Witness ==
    /\ OnlyOneIncomeNote
    /\ last_row.block = None
    /\ user_balances.value.incoming = 20 * marginal_fee

\* What the step now being taken adds to a field of the balances
Added(field) == balances'[field] - balances[field]

\* The step now being taken is one pass of the loop, for the row last_row'
BucketingStep == rows_read' = rows_read + 1

\* The fees of a number of fee units and the receiving note's unit, raised to the
\* protocol's minimum
FeesFor(units) ==
    IF marginal_fee * (units + 1) < MINIMUM_FEE THEN MINIMUM_FEE
    ELSE marginal_fee * (units + 1)

\* C36 as stated: minimum_fees of the bucketing pass covers exactly the funds counted in
\* spendable and immature_change: a pass of the loop adds a fee unit only for a row whose
\* value it adds to spendable or immature_change; after the loop minimum_fees is 0 when
\* nothing is counted in those two buckets and otherwise the fee units and one more,
\* raised to the protocol's minimum.
C36_FeesCoverSpendableAndChange ==
    /\ [][BucketingStep =>
            (Added("minimum_fees") # 0 =>
                Added("spendable") + Added("immature_change") = last_row'.value)]_vars
    /\ [](balance_pc = "summary" =>
            /\ balances.spendable + balances.immature_change = 0
                    => balances.minimum_fees = 0
            /\ balances.spendable + balances.immature_change # 0
                    => \E units \in 1 .. MaxNotes : balances.minimum_fees = FeesFor(units))

\* The loop has ended for a wallet whose only unspent item is a mined UTXO of 100,000
\* zatoshis at or below its anchor: it is counted as immature_income, nothing is
\* spendable or immature change, and minimum_fees is not 0.
MatureUtxoCharged ==
    /\ balance_pc = "summary"
    /\ rows_read = 1
    /\ last_row.output_pool = 0
    /\ balances.immature_income = last_row.value
    /\ balances.spendable + balances.immature_change = 0
    /\ balances.minimum_fees = FeesFor(1)

\* The loop has ended for a wallet whose only unspent item is a change note of 100,000
\* zatoshis whose transaction is not mined: it is counted in no field but minimum_fees.
UnminedChangeCharged ==
    /\ balance_pc = "summary"
    /\ rows_read = 1
    /\ last_row.is_change /\ last_row.block = None
    /\ last_row.value >= marginal_fee
    /\ balances = [DefaultBalances EXCEPT !.minimum_fees = FeesFor(1)]

\* What does hold of the fee units: a pass of the loop adds one exactly for a row that
\* is not dust and is change or mined at or below its anchor.
FeeUnitForChangeOrMature ==
    [][BucketingStep =>
        Added("minimum_fees") =
            IF /\ last_row'.value >= marginal_fee
               /\ last_row'.is_change \/ IsMature(last_row', anchors)
            THEN marginal_fee ELSE 0]_vars

\* A row of a change note that is not dust and cannot be spent yet: its transaction is
\* not mined, or mined above the anchor of its key scope
IsImmatureChange(row) ==
    /\ row.is_change
    /\ row.value >= marginal_fee
    /\ LET relevant_anchor == IF row.recipient_key_scope = 1 THEN anchors.trusted
                              ELSE anchors.untrusted
       IN row.block = None \/ row.block > relevant_anchor

\* C37 as stated: immature_change of the bucketing pass is the sum of the values of the
\* unspent change notes that are not dust and have too few confirmations to be spent,
\* those whose transaction is not mined included: a pass of the loop adds the value of
\* exactly such a row.
C37_ImmatureChangeCountsUnmined ==
    [][BucketingStep =>
        Added("immature_change") =
            IF IsImmatureChange(last_row') THEN last_row'.value ELSE 0]_vars

\* What does hold of immature_change: a pass of the loop adds the value of exactly the
\* rows of change notes that are not dust and are mined above their anchor.
ImmatureChangeCountsMined ==
    [][BucketingStep =>
        Added("immature_change") =
            IF IsImmatureChange(last_row') /\ last_row'.block # None
            THEN last_row'.value ELSE 0]_vars

\* The four buckets an unspent item's value may be added to
Buckets == {"spendable", "immature_change", "immature_income", "dust"}

\* C40: a pass of the loop adds the row's value to at most one of spendable,
\* immature_change, immature_income and dust and nothing to the others; it adds
\* nothing to incoming for a row with a block height, nothing to the four buckets for
\* a row without one, and nothing to spendable for a transparent row; incoming_dust
\* never exceeds incoming.
C40_BucketsAreDisjoint ==
    /\ [][BucketingStep =>
            LET row == last_row'
            IN /\ \A f \in Buckets : Added(f) \in {0, row.value}
               /\ \A f, g \in Buckets : (Added(f) # 0 /\ Added(g) # 0) => f = g
               /\ row.block # None => Added("incoming") = 0 /\ Added("incoming_dust") = 0
               /\ row.block = None => \A f \in Buckets : Added(f) = 0
               /\ row.output_pool = 0 => Added("spendable") = 0
               /\ Added("incoming_dust") <= Added("incoming")]_vars
    /\ [](balances.incoming_dust <= balances.incoming)

\* C40 happens: the loop has counted two rows, first an unmined note that is dust as
\* incoming and incoming_dust only, then a mined transparent UTXO at or below its
\* anchor as immature_income only.
C40_Witness ==
    /\ balance_pc = "rows"
    /\ rows_read = 2
    /\ last_row.output_pool = 0
    /\ last_row.block # None /\ last_row.block <= anchors.untrusted
    /\ last_row.value >= marginal_fee
    /\ balances = [DefaultBalances EXCEPT !.incoming = marginal_fee - 1,
                                          !.incoming_dust = marginal_fee - 1,
                                          !.immature_income = last_row.value,
                                          !.minimum_fees = marginal_fee]

(***************************************************************************)
(* Claims about send.rs                                                    *)
(***************************************************************************)

\* C15: when transmit_transaction returns after the server answered its submission, the
\* transaction was submitted exactly once; a non-zero error_code gives SendFailed with
\* exactly that code and error_message, a zero error_code gives Ok with the submitted
\* txid.  However it returns, it never submitted more than once.
C15_SendFailedVerbatimNoRetry ==
    /\ submissions <= 1
    /\ (send_pc = "returned" /\ send_response # NoResponse) =>
        /\ submissions = 1
        /\ send_response.error_code # 0 =>
               send_result = Err(SendFailed(send_response.error_code,
                                            send_response.error_message))
        /\ send_response.error_code = 0 =>
               send_result = OkResult(SendTransactionResult(send_txid))

\* C15 witness: transmit_transaction returned SendFailed with a negative code and a
\* reason, after one submission.
C15_Witness ==
    /\ send_pc = "returned"
    /\ submissions = 1
    /\ send_response # NoResponse
    /\ send_response.error_code < 0
    /\ send_response.error_message # ""
    /\ send_result.tag = "Err"
    /\ send_result.error.variant = "SendFailed"

(***************************************************************************)
(* Claims about the progress sink                                          *)
(***************************************************************************)

SinkCallsOfStep ==
    /\ update_status_calls' \in {update_status_calls, update_status_calls + 1}
    /\ report_transactions_calls' \in {report_transactions_calls, report_transactions_calls + 1}
    \* the scanner invokes update_status only as the last step of a chunk, and then once
    /\ scanner_status_calls' # scanner_status_calls =>
           /\ scan_pc = "report"
           /\ scanner_status_calls' = scanner_status_calls + 1
           /\ update_status_calls' = update_status_calls + 1
    /\ (scan_pc = "report" /\ scan_pc' # "report" /\ scanner_status.some) =>
           scanner_status_calls' = scanner_status_calls + 1
    \* never for a chunk of a Verify range
    /\ sync_pc \in {"verify", "verify_join"} => update_status_calls' = update_status_calls
    \* sync() itself invokes it before the for loop, after each range, and when caught up
    /\ (update_status_calls' # update_status_calls
            /\ scanner_status_calls' = scanner_status_calls) =>
           sync_pc \in {"scan_remaining", "full_transactions", "caught_up"}
    \* report_transactions: per address found used in discovery, and per scanned range
    /\ report_transactions_calls' # report_transactions_calls =>
           sync_pc \in {"discover_transparent", "full_transactions"}

C17_ChunksInOrderEachPersisted ==
    scan_pc = "scan_blocks" =>
        /\ scan_range.start = scanned_up_to
        /\ \A h \in block_range.start .. scan_range.start - 1 : h \in DOMAIN wallet_scanned

\* The order alone: holds.  The chunks of a range are scanned one after the other, each
\* beginning where the one before it ended.
ChunksScannedInAscendingOrder ==
    scan_pc \in {"scan_blocks", "remove_range", "report"} =>
        /\ scan_range # NoRange
        /\ scan_pc = "scan_blocks" => scan_range.start = scanned_up_to
        /\ scan_pc # "scan_blocks" => scan_range.end = scanned_up_to

\* Persistence, as long as no scan of the range has reported a continuity error: holds.
EarlierChunksPersistedUnlessRewound ==
    (scan_pc = "scan_blocks" /\ ~priorities_changed) =>
        \A h \in block_range.start .. scan_range.start - 1 : h \in DOMAIN wallet_scanned

(***************************************************************************)
(* Claims about the mempool wait                                           *)
(***************************************************************************)

\* sync() leaves its mempool wait in this step
LeavesMempoolWait == sync_pc = "watch_mempool" /\ sync_pc' # "watch_mempool"

InFlightWithId(o) == operations[o].pc = "running" /\ operations[o].id # None

\* The step is a call of cancel
CancelCallStep == cancel_call'.seq # cancel_call.seq

\* C19: the ids of the operations in flight at the same time are distinct; cancel(id)
\* returns Ok and cancels the token of the operation in flight that was assigned id
\* and no other token; cancel of an id that is unknown, was cancelled before or belongs
\* to a finished operation changes nothing; and every registered id belongs to an
\* operation in flight, so that a finished operation's id is no longer registered.
C19_DistinctIdsCancelOnlyOwn ==
    /\ [](\A o1, o2 \in Operations :
              (o1 # o2 /\ InFlightWithId(o1) /\ InFlightWithId(o2)) =>
                  operations[o1].id # operations[o2].id)
    /\ [](\A id \in DOMAIN CANCELLATION_TOKENS :
              /\ operations[CANCELLATION_TOKENS[id]].pc = "running"
              /\ operations[CANCELLATION_TOKENS[id]].id = id
              /\ ~token_cancelled[CANCELLATION_TOKENS[id]])
    /\ [](\A o \in Operations :
              /\ (InFlightWithId(o) /\ ~token_cancelled[o]) =>
                     operations[o].id \in DOMAIN CANCELLATION_TOKENS
              /\ (operations[o].pc = "finished" /\ operations[o].id # None) =>
                     operations[o].id \notin DOMAIN CANCELLATION_TOKENS)
    /\ [][CancelCallStep =>
              LET id == cancel_call'.id
                  live == {o \in Operations :
                              InFlightWithId(o) /\ operations[o].id = id
                                  /\ ~token_cancelled[o]}
              IN  /\ cancel_call'.result = "Ok"
                  /\ UNCHANGED <<TOKEN_COUNTER, operations>>
                  /\ \A o \in Operations :
                         token_cancelled'[o] = (token_cancelled[o] \/ o \in live)
                  /\ live = {} => UNCHANGED <<CANCELLATION_TOKENS, token_cancelled>>
                  /\ id \notin DOMAIN CANCELLATION_TOKENS']_vars
    /\ [][~CancelCallStep => UNCHANGED token_cancelled]_vars

\* C19 witness: two operations in flight with ids, the token of one of them cancelled
\* by the last call of cancel and the token of the other not, and a third operation
\* finished with its id no longer registered.
C19_Witness ==
    \E o1, o2, o3 \in Operations :
        /\ InFlightWithId(o1) /\ InFlightWithId(o2)
        /\ cancel_call.id = operations[o1].id
        /\ token_cancelled[o1] /\ ~token_cancelled[o2]
        /\ operations[o3].pc = "finished" /\ operations[o3].id # None
        /\ operations[o3].id \notin DOMAIN CANCELLATION_TOKENS

(***************************************************************************)
(* Claims about the shared gRPC channels                                   *)
(***************************************************************************)

\* The channels the callers of get_grpc_channel(uri) have received
ChannelsReceivedFor(uri) ==
    {callers[c].result.value : c \in {k \in Callers : /\ callers[k].uri = uri
                                                      /\ callers[k].result.tag = "Ok"}}

\* The step is a call of destroy_channel
DestroyCallStep == destroy_call'.seq # destroy_call.seq

\* C20: as long as destroy_channel(uri) has not been called, at most one channel has
\* been connected for uri and every caller of get_grpc_channel(uri) has received that
\* same channel, however the calls interleave.
C20_OneChannelPerUri ==
    \A uri \in Uris \ destroyed :
        /\ Cardinality(ChannelsCreatedFor(uri)) <= 1
        /\ Cardinality(ChannelsReceivedFor(uri)) <= 1

\* The destroy_channel half of C20 alone: holds.  destroy_channel(uri) returns true
\* exactly when a channel was cached for uri, leaves none cached for uri and leaves the
\* channels of the other URIs alone, so that a repeated call returns false.
DestroyReturnsWhetherCached ==
    [][DestroyCallStep =>
           LET uri == destroy_call'.uri
           IN  /\ destroy_call'.result = (uri \in DOMAIN CHANNELS)
               /\ uri \notin DOMAIN CHANNELS'
               /\ \A u \in Uris \ {uri} :
                      /\ (u \in DOMAIN CHANNELS') = (u \in DOMAIN CHANNELS)
                      /\ u \in DOMAIN CHANNELS => CHANNELS'[u] = CHANNELS[u]
               /\ (destroy_call.uri = uri /\ destroy_call.seq = 1
                       /\ CHANNELS = remove_channel(CHANNELS, uri)) =>
                      ~destroy_call'.result]_vars

\* Two callers that looked the URI up before either had inserted its channel: both
\* connected, and each was handed its own channel.
TwoChannelsForOneUri ==
    \E uri \in Uris \ destroyed :
        /\ Cardinality(ChannelsCreatedFor(uri)) = 2
        /\ Cardinality(ChannelsReceivedFor(uri)) = 2

(***************************************************************************)
(* Claims about a range after a continuity error                           *)
(***************************************************************************)

\* C21: once the scan of a chunk of a range has reported a continuity error, no further
\* chunk of that range is inserted into the cache or scanned, whether it was queued in
\* the channel or still being downloaded, and the range's result reports
\* priorities_changed = true.
C21_RangeAbandonedAfterContinuityError ==
    scan_outcome.kind = "continuity" =>
        /\ scan_pc # "scan_blocks"
        /\ priorities_changed
        /\ scanner.tag = "Ok" => scanner.value.priorities_changed

\* The result alone: holds.  A range in which a scan reported a continuity error and
\* whose scanner then returned Ok reports priorities_changed = true, and the child
\* token has fired.
ContinuityErrorReportsPrioritiesChanged ==
    (block_range # NoRange /\ truncations # << >> /\ priorities_changed) =>
        /\ priorities_changed_token
        /\ scanner.tag = "Ok" => scanner.value.priorities_changed

(***************************************************************************)
(* Claims about the orchestrator's loops                                   *)
(***************************************************************************)

\* download_and_scan_blocks has returned Ok with priorities_changed = true to the verify
\* loop or to the for loop over the remaining ranges, and sync() has yet to act on it
RangeReportedChange ==
    /\ sync_pc \in {"verify_join", "full_transactions"}
    /\ try_join.tag = "Ok"
    /\ try_join.value.priorities_changed

\* sync() fails in this step
SyncFails == sync_pc' = "returned" /\ sync_result'.tag = "Err"

\* C22 as stated: when the scan of a range, of Verify priority or not, has reported
\* changed priorities, sync() goes on to no other range, does not return Ok and does
\* not wait on the mempool: what it does next is the tip fetch with update_chain_tip.
C22_AnyChangeRestartsAtFetchTip ==
    [][(RangeReportedChange /\ sync_pc' # sync_pc) =>
           (sync_pc' = "fetch_tip" \/ SyncFails)]_vars

\* C22, amended: when the scan of a range of the for loop over the remaining ranges has
\* reported changed priorities, sync() goes on to no other range of the list, does not
\* return Ok and does not wait on the mempool: it goes back to the tip fetch.  When
\* the scan of a Verify range has reported changed priorities, sync() fetches the
\* suggestions again and repeats the verify step, without fetching the tip.
C22_ChangeRestartsOrReverifies ==
    [][(RangeReportedChange /\ sync_pc' # sync_pc) =>
           \/ SyncFails
           \/ /\ sync_pc = "full_transactions"
              /\ sync_pc' = "fetch_tip"
              /\ sync_result' = Pending
              /\ PipeIdle'
           \/ /\ sync_pc = "verify_join"
              /\ sync_pc' = "verify"
              /\ scan_ranges' = suggest_scan_ranges(wallet_queue)
              /\ sync_status'.tip_height = sync_status.tip_height
              /\ sync_result' = Pending
              /\ PipeIdle']_vars

\* C22 witness: the scan of a Verify range has reported changed priorities (its chunk
\* met a continuity error) and sync() is about to fetch the suggestions again.
C22_Witness ==
    /\ sync_pc = "verify_join"
    /\ block_range.priority = "Verify"
    /\ try_join.tag = "Ok"
    /\ try_join.value.priorities_changed
    /\ truncations # << >>

\* The other case: the scan of a range of the for loop reported changed priorities
\* while the list holds another range, and sync() is back at the tip fetch.
ChangeInForLoopRestarts ==
    /\ sync_pc = "fetch_tip"
    /\ Len(scan_ranges) > 1
    /\ sync_result = Pending

\* The wallet store suggests a range of Verify priority
VerifySuggested ==
    \E i \in DOMAIN suggest_scan_ranges(wallet_queue) :
        suggest_scan_ranges(wallet_queue)[i].priority = "Verify"

\* A range that is not of Verify priority is being downloaded or scanned
OtherPriorityInFlight ==
    /\ block_range # NoRange
    /\ block_range.priority # "Verify"
    /\ \/ download_pc \in {"get_block_range", "try_next", "get_tree_state", "send"}
       \/ scan_pc \in {"scan_blocks", "remove_range", "report"}
       \/ (scan_pc = "recv" /\ channel # << >>)

\* A range that is not of Verify priority starts to be downloaded, or a chunk of it
\* starts to be scanned
OtherPriorityStarts ==
    /\ block_range # NoRange
    /\ block_range.priority # "Verify"
    /\ download_pc = "get_block_range" \/ scan_pc = "scan_blocks"

\* C23: while the wallet store suggests a range of Verify priority, no download of a
\* range of another priority and no scan of a chunk of such a range is started.
C23_VerifyBeforeOtherPriorities == OtherPriorityStarts => ~VerifySuggested

\* The same, and for every step of the download and of the scan, as long as no scan of
\* the range in flight has reported changed priorities: holds, whatever requests fail.
VerifyFirstUnlessChanged ==
    (OtherPriorityInFlight /\ ~priorities_changed) => ~VerifySuggested

\* The order of the steps of one iteration of sync()'s outer loop
StepsInOrder ==
    {<<"fetch_tip", "discover_transparent">>,
     <<"discover_transparent", "verify">>,
     <<"verify", "verify_join">>,
     <<"verify_join", "verify">>,
     <<"verify", "scan_remaining">>,
     <<"verify_join", "scan_remaining">>,
     <<"scan_remaining", "next_range">>,
     <<"next_range", "range_join">>,
     <<"range_join", "full_transactions">>,
     <<"full_transactions", "next_range">>,
     <<"next_range", "caught_up">>}

\* The steps that start an iteration
StepsToFetchTip ==
    {<<"update_subtree_roots", "fetch_tip">>,
     <<"full_transactions", "fetch_tip">>,
     <<"watch_mempool", "fetch_tip">>}

\* C24: sync() moves through an iteration in the order FetchTip, DiscoverTransparent,
\* VerifyRanges, ScanRemaining; the tip is fetched and update_chain_tip called in the
\* first step of an iteration and in no other; a block download starts only in the
\* verify step or the scan-remaining step; CaughtUp is reached only when the for loop
\* has gone through every range with none reporting changed priorities, and only
\* CaughtUp returns Ok (one-shot) or waits on the mempool (continuous).
C24_IterationOrder ==
    [][/\ (sync_pc' # sync_pc /\ sync_pc # "get_lightd_info" /\ ~SyncFails) =>
              \/ <<sync_pc, sync_pc'>> \in StepsInOrder \cup StepsToFetchTip
              \/ /\ sync_pc = "caught_up"
                 /\ IF continually THEN sync_pc' = "watch_mempool"
                    ELSE sync_pc' = "returned" /\ sync_result'.tag = "Ok"
       /\ (sync_pc = "fetch_tip" /\ sync_pc' = "discover_transparent") =>
              /\ sync_status'.tip_height = server_tip
              /\ wallet_queue' = update_chain_tip(wallet_queue, wallet_scanned,
                                                  wallet_birthday, server_tip)
       /\ sync_status'.tip_height # sync_status.tip_height => sync_pc = "fetch_tip"
       /\ (block_range = NoRange /\ block_range' # NoRange) =>
              sync_pc \in {"verify", "next_range"}
       /\ (sync_pc = "full_transactions" /\ sync_pc' = "next_range") =>
              ~scanner.value.priorities_changed
       /\ sync_pc' = "caught_up" => (sync_pc = "caught_up" \/ scan_ranges = << >>)]_vars

\* C24 witness: a continuous sync is caught up in an iteration that followed a new
\* block, with more than one block scanned and every range of the list gone through.
C24_Witness ==
    /\ sync_pc = "caught_up"
    /\ continually
    /\ chain_grew
    /\ scan_ranges = << >>
    /\ Cardinality(DOMAIN wallet_scanned) > 1

(***************************************************************************)
(* Claims about cancellation during a range                                *)
(***************************************************************************)

\* The downloader, once its token is seen fired, reads at most the block it is waiting
\* for: it enters `stream.try_next()` again only from the request that opens the stream
DownloaderStopsAtLoopCheck ==
    (cancellation_token /\ download_pc' = "try_next" /\ download_pc # "try_next") =>
        download_pc = "get_block_range"

\* A chunk whose scan has started goes through scan, evict and status update in that
\* order, unless its scan fails
ChunkCarriedThrough ==
    /\ (scan_pc = "scan_blocks" /\ scan_pc' # scan_pc) =>
           \/ scan_pc' = "remove_range"
           \/ scan_pc' = "done" /\ scanner'.tag = "Err" /\ scanner'.error.variant # "Canceled"
    /\ (scan_pc = "remove_range" /\ scan_pc' # scan_pc) =>
           /\ scan_pc' = "report"
           /\ \A h \in scan_range.start .. scan_range.end - 1 : h \notin DOMAIN blocks'
    /\ (scan_pc = "report" /\ scan_pc' # scan_pc) =>
           IF cancellation_token
           THEN scan_pc' = "done" /\ scanner' = Err(Error("Canceled", ""))
           ELSE scan_pc' = "recv"

\* C25: once the sync-wide token has fired during a range, the downloader reads the
\* stream at most until its next loop check, the scanner receives no new chunk, and a
\* chunk whose scan had started is carried through scan, evict and status update
\* before the scanner unwinds.
C25_CancelStopsAtChunkBoundary ==
    [][cancellation_token =>
           /\ DownloaderStopsAtLoopCheck
           /\ ~(scan_pc = "recv" /\ scan_pc' = "scan_blocks")
           /\ ChunkCarriedThrough]_vars

\* Without the second conjunct: holds.  After the token has fired the scanner's select!
\* may still take a chunk that is queued, but the check after that chunk unwinds it, so
\* at most one chunk is started after the token fired.
CancelStopsAfterAtMostOneMoreChunk ==
    [][cancellation_token =>
           /\ DownloaderStopsAtLoopCheck
           /\ ChunkCarriedThrough
           /\ (scan_pc = "recv" /\ scan_pc' = "scan_blocks") => channel # << >>]_vars

(***************************************************************************)
(* Claims about errors of the scanner                                      *)
(***************************************************************************)

\* The scanner task has failed with an error of scan_blocks
ScannerFailedInScan ==
    /\ scanner.tag = "Err"
    /\ scanner.error.variant \in {"Scan", "BlockSource"}

\* C26: when the scanner task of a range has failed with an error of its scan that is
\* no continuity error, download_and_scan_blocks, once it returns, returns that error,
\* whatever the downloader does in the meantime.
C26_ScanErrorSurfacesAsIs ==
    (ScannerFailedInScan /\ sync_pc \in {"verify_join", "range_join"}
         /\ try_join # Pending) =>
        try_join = scanner

\* The same when the downloader does not send after the scanner has failed: holds.
ScanErrorSurfacesUnlessDownloaderPanics ==
    (ScannerFailedInScan /\ sync_pc \in {"verify_join", "range_join"}
         /\ try_join # Pending /\ downloader # Panicked) =>
        try_join = scanner

\* The scanner failed in its scan and the downloader, sending afterwards, panicked:
\* the range's result is the JoinError.
ScanErrorHiddenByJoinError ==
    /\ ScannerFailedInScan
    /\ downloader = Panicked
    /\ try_join = Err(Error("Join", ""))

(***************************************************************************)
(* Claims about the child token of a range                                 *)
(***************************************************************************)

\* C27: firing the child token of a range leaves the sync-wide token as it is, and the
\* sync-wide token is fired by the host alone; after the child token has fired the
\* downloader of the range does not enter `stream.try_next()` again; a sync call whose
\* sync-wide token has not fired does not end with a cancelled error; the child token
\* of every range starts un-cancelled.  Conversely, once the sync-wide token has fired
\* the downloader stops at its loop check as it does for the child token.
C27_ChildTokenCancelsOnlyItsRange ==
    /\ []((sync_pc = "returned" /\ ~cancellation_token /\ sync_result.tag = "Err") =>
              /\ sync_result.error # Error("TonicStatus", "Cancelled")
              /\ sync_result.error.variant # "Canceled"
              /\ cancel_observed = "none")
    /\ [][/\ (priorities_changed_token' # priorities_changed_token) =>
                 cancellation_token' = cancellation_token
          /\ (cancellation_token' # cancellation_token) =>
                 UNCHANGED <<sync_pc, sync_result, pipeVars>>
          /\ (priorities_changed_token /\ download_pc # "try_next") =>
                 download_pc' # "try_next"
          /\ (block_range = NoRange /\ block_range' # NoRange) =>
                 /\ ~priorities_changed_token'
                 /\ ChildIsCancelled' = cancellation_token'
          /\ cancellation_token => DownloaderStopsAtLoopCheck]_vars

\* C27 witness: the child token of an earlier range fired (its scan met a continuity
\* error), the sync went on without being cancelled, and the downloader of a later
\* range is reading its stream with its child token un-cancelled.
C27_Witness ==
    /\ truncations # << >>
    /\ ~cancellation_token
    /\ block_range # NoRange
    /\ ~priorities_changed
    /\ ~ChildIsCancelled
    /\ download_pc = "try_next"
    /\ stream_next > block_range.start

(***************************************************************************)
(* Claims about what sync() discards                                       *)
(***************************************************************************)

\* The step handles a continuity error: scan_blocks calls the wallet store's
\* truncate_to_height
HandlesContinuityError ==
    /\ scan_pc = "scan_blocks"
    /\ ContinuityErrorAt(with_blocks(blocks, scan_range.start, RangeLen(scan_range)).rows,
                         wallet_scanned) # None
    /\ scan_outcome'.kind = "continuity"

\* C28: the wallet store's truncate_to_height is invoked only by a step that handles a
\* continuity error; in every other step of sync every block the wallet store holds
\* stays as it is, so that its scanned height does not decrease, and no height leaves
\* the scan queue.
C28_OnlyContinuityErrorDiscards ==
    [][/\ truncations' # truncations =>
              /\ HandlesContinuityError
              /\ Len(truncations') = Len(truncations) + 1
       /\ ~HandlesContinuityError =>
              /\ truncations' = truncations
              /\ \A h \in DOMAIN wallet_scanned :
                     h \in DOMAIN wallet_scanned' /\ wallet_scanned'[h] = wallet_scanned[h]
              /\ DOMAIN wallet_queue \subseteq DOMAIN wallet_queue'
              /\ \A h \in DOMAIN wallet_queue :
                     wallet_queue[h] = "Scanned" => wallet_queue'[h] = "Scanned"]_vars

\* C28 witness: a continuity error has made scan_blocks truncate the wallet store, and
\* the sync call was then cancelled and ended in an error, with the wallet store still
\* holding blocks.
C28_Witness ==
    /\ truncations # << >>
    /\ wallet_scanned # << >>
    /\ sync_pc = "returned"
    /\ sync_result.tag = "Err"
    /\ cancellation_token

(***************************************************************************)
(* Claims about a chunk with a height the block cache lacks                *)
(***************************************************************************)

\* The heights of the chunk being scanned that the block cache does not hold
AbsentHeights == {h \in scan_range.start .. scan_range.end - 1 : h \notin DOMAIN blocks}

\* The step is the scanner's call of scan_blocks
ScanBlocksStep == scan_pc = "scan_blocks" /\ scan_pc' # "scan_blocks"

DownloaderRequestFails ==
    /\ download_pc \in {"get_block_range", "try_next", "get_tree_state"}
    /\ download_pc' # download_pc
    /\ faults' = faults + 1
    /\ stream_next' = stream_next

\* C30: the block-range fetch and the tree-state fetch of a chunk go through the retry
\* wrapper: a transport failure of one of them is retried, so that the downloader does
\* not end with the error before the request has failed more than ATTEMPT_LIMIT times.
C30_DownloaderRequestsRetried ==
    [][DownloaderRequestFails /\ faults' <= ATTEMPT_LIMIT => downloader' = Pending]_vars

\* The first transport failure of a request of the downloader ends the downloader task
\* with that error
DownloaderRequestsNotRetried ==
    [][DownloaderRequestFails =>
           /\ downloader' = Err(Error("TonicStatus", "Unavailable"))
           /\ download_pc' = "done"]_vars

\* The tree-state fetch of a chunk has failed once and the downloader has ended with the
\* error, the chunk unsent
TreeStateFetchFailedOnce ==
    /\ faults = 1
    /\ downloader = Err(Error("TonicStatus", "Unavailable"))
    /\ download_blocks_vec # << >>
    /\ download_pc = "done"

(***************************************************************************)
(* Claims about what the pipeline of a range holds in memory               *)
(***************************************************************************)

\* The spends, outputs and actions of a vector of blocks
RECURSIVE ActionsOf(_)
ActionsOf(vec) ==
    IF vec = << >> THEN 0 ELSE block_actions[Head(vec).height] + ActionsOf(Tail(vec))

\* The spends, outputs and actions of the chunks queued in the channel
RECURSIVE ActionsQueued(_)
ActionsQueued(queue) ==
    IF queue = << >> THEN 0 ELSE ActionsOf(Head(queue).blocks) + ActionsQueued(Tail(queue))

\* The spends, outputs and actions of the blocks in the block cache: the chunk being scanned
RECURSIVE ActionsCached(_)
ActionsCached(heights) ==
    IF heights = {} THEN 0
    ELSE LET h == MinOf(heights) IN block_actions[h] + ActionsCached(heights \ {h})

\* What the pipeline holds: the chunk the downloader accumulates or is sending, the chunks
\* queued in the channel, and the chunk being scanned
ActionsInMemory ==
    ActionsOf(download_blocks_vec) + ActionsQueued(channel) + ActionsCached(DOMAIN blocks)

\* The chunks the pipeline holds
ChunksInMemory ==
    (IF download_blocks_vec = << >> THEN 0 ELSE 1) + Len(channel)
        + (IF blocks = << >> THEN 0 ELSE 1)

\* C31: at every moment of a range scan the pipeline holds at most
\* BLOCK_ACTIONS_MEMORY_LIMIT spends, outputs and actions, and the channel holds at most
\* CHUNK_CHANNEL_CAPACITY chunks.
C31_MemoryLimitHolds ==
    /\ ActionsInMemory <= BLOCK_ACTIONS_MEMORY_LIMIT
    /\ Len(channel) <= CHUNK_CHANNEL_CAPACITY

\* The channel holds at most CHUNK_CHANNEL_CAPACITY chunks and the pipeline at most two
\* more; a chunk that is queued or scanned went over BLOCKS_CHUNK_THRESHOLD only with
\* its last block, unless it is the last of its range.
ChannelCapacityHolds ==
    /\ Len(channel) <= CHUNK_CHANNEL_CAPACITY
    /\ ChunksInMemory <= CHUNK_CHANNEL_CAPACITY + 2
    /\ \A i \in 1 .. Len(channel) :
           ActionsOf(SubSeq(channel[i].blocks, 1, Len(channel[i].blocks) - 1))
               <= BLOCKS_CHUNK_THRESHOLD

\* A full channel, a chunk being scanned and a closed chunk waiting to be sent: every one
\* of them over BLOCKS_CHUNK_THRESHOLD
FullPipelineOverLimit ==
    /\ Len(channel) = CHUNK_CHANNEL_CAPACITY
    /\ download_pc = "send"
    /\ scan_pc = "scan_blocks"
    /\ ActionsOf(download_blocks_vec) > BLOCKS_CHUNK_THRESHOLD
    /\ \A i \in 1 .. Len(channel) : ActionsOf(channel[i].blocks) > BLOCKS_CHUNK_THRESHOLD
    /\ ActionsCached(DOMAIN blocks) > BLOCKS_CHUNK_THRESHOLD
    /\ ActionsInMemory > BLOCK_ACTIONS_MEMORY_LIMIT

\* C32: during a range scan the block cache holds only heights of the chunk being
\* scanned, and it is empty whenever the scanner waits for the next chunk, after a scan
\* that succeeded and after a continuity rewind alike.
C32_CacheHoldsOnlyCurrentChunk ==
    /\ scan_pc \in {"recv", "report"} => blocks = << >>
    /\ scan_pc \in {"scan_blocks", "remove_range"} =>
           DOMAIN blocks \subseteq scan_range.start .. scan_range.end - 1

\* C32 witness: a continuity error truncated the cache and the wallet store, the chunk's
\* range was removed, and the scanner waits for the next chunk, which is queued, with
\* an empty cache.
C32_Witness ==
    /\ scan_pc = "recv"
    /\ scan_outcome.kind = "continuity"
    /\ truncations # << >>
    /\ channel # << >>
    /\ blocks = << >>

(***************************************************************************)
(* Claims about the chunks the downloader sends                            *)
(***************************************************************************)

\* The blocks of a sequence of messages, in order
RECURSIVE BlocksOf(_)
BlocksOf(messages) ==
    IF messages = << >> THEN << >> ELSE Head(messages).blocks \o BlocksOf(Tail(messages))

\* download_blocks returned Ok after its stream ended, its token not cancelled
StreamEndedCleanly ==
    /\ download_pc = "done"
    /\ downloader = OkResult("unit")
    /\ ~ChildIsCancelled

Queried == {queries[i].address : i \in 1 .. Len(queries)}

\* The loop has exited with every watched address queried in this iteration and every
\* address with history marked used
EveryAddressQueried ==
    discover_pc = "done" =>
        \A i \in 1 .. Len(taddrs) :
            /\ AddressOf(taddrs[i]) \in Queried
            /\ AddressOf(taddrs[i]) \in address_history => taddrs[i].used

NewQueries == {queries'[k] : k \in Len(queries) + 1 .. Len(queries')}

\* C35: each history query of a watched transparent address covers the heights from the
\* address's last-synced height, or from Sapling activation when it was never synced, up
\* to the tip of the iteration; a query whose results were all decoded and stored sets
\* the address's last-synced height to the tip, and a query that failed, or whose results
\* could not be decoded or stored, leaves it as it was; so does the loop for every
\* address it did not query.
C35_QueryCoversSinceLastSynced ==
    [][discover_pc = "for" =>
        /\ \A q \in NewQueries :
               /\ q.end = TipHeight
               /\ q.start = IF latest_scanned[q.address] = None THEN SaplingActivation
                            ELSE latest_scanned[q.address]
               /\ q.ok => latest_scanned'[q.address] = TipHeight
               /\ ~q.ok => latest_scanned'[q.address] = latest_scanned[q.address]
        /\ \A address \in DOMAIN latest_scanned :
               (\A q \in NewQueries : q.address # address)
                   => latest_scanned'[address] = latest_scanned[address]]_vars

\* C35 happens: the loop failed at a never synced address, queried from Sapling
\* activation and still never synced, after an address synced before was queried from
\* its last-synced height and brought to the tip.
C35_Witness ==
    /\ discover_pc = "failed"
    /\ \E k \in 1 .. Len(queries) :
           /\ ~queries[k].ok
           /\ queries[k].start = SaplingActivation
           /\ latest_scanned[queries[k].address] = None
    /\ \E k \in 1 .. Len(queries) :
           /\ queries[k].ok
           /\ queries[k].start = TipHeight - 1
           /\ latest_scanned[queries[k].address] = TipHeight


(***************************************************************************)
(* Claims about the termination of download_and_scan_blocks                *)
(***************************************************************************)

\* download_and_scan_blocks is running: sync() awaits it
PipelineRunning == sync_pc \in {"verify_join", "range_join"}

\* The blocks in the chunks of a sequence of channel messages
RECURSIVE BlocksQueued(_)
BlocksQueued(messages) ==
    IF messages = << >> THEN 0
    ELSE Len(Head(messages).blocks) + BlocksQueued(Tail(messages))

\* The blocks the scanner has not yet received: those still to be streamed, those the
\* downloader accumulates and those in the channel
Unreceived ==
    (block_range.end - stream_next) + Len(download_blocks_vec) + BlocksQueued(channel)

\* The steps the downloader can still take at most before it returns
DownloadMeasure ==
    IF download_pc = "idle" \/ downloader # Pending THEN 0
    ELSE 6 * (block_range.end - stream_next)
         + (CASE download_pc = "get_block_range" -> 4
              [] download_pc = "try_next" -> 3
              [] download_pc = "get_tree_state" /\ download_after = "loop" -> 5
              [] download_pc = "send" /\ download_after = "loop" -> 4
              [] download_pc = "get_tree_state" /\ download_after = "exit" -> 2
              [] download_pc = "send" /\ download_after = "exit" -> 1)

\* The steps the scanner can still take at most before it returns
ScanMeasure ==
    IF scan_pc = "idle" \/ scanner # Pending THEN 0
    ELSE 4 * Unreceived
         + (CASE scan_pc = "recv" -> 1
              [] scan_pc = "scan_blocks" -> 4
              [] scan_pc = "remove_range" -> 3
              [] scan_pc = "report" -> 2)

\* The downloader waits in `sender.send(..).await` and can neither send nor fail
DownloaderBlocked ==
    download_pc = "send" /\ ~ENABLED (DownloadSend \/ DownloadSendPanics)

\* The scanner waits in select! and neither branch is ready
ScannerBlocked ==
    scan_pc = "recv" /\ ~ENABLED (ScannerRecv \/ ScannerRecvNone \/ ScannerCancelled)

\* While download_and_scan_blocks runs and its join has no result: a downloader that is
\* not in send and a scanner that is not in recv can take their next step; a downloader
\* blocked in send has a full channel before it and a scanner that is running and is
\* not blocked; a scanner blocked in recv has an empty channel before it and a
\* downloader that is running and is not blocked.  Once the join has a result the call
\* returns it.
NoPipelineDeadlock ==
    /\ (PipelineRunning /\ try_join = Pending) =>
            /\ download_pc \in {"get_block_range", "try_next", "get_tree_state"}
                    => ENABLED DownloaderNext
            /\ scan_pc \in {"remove_range", "report"}
                    => ENABLED (ScannerRemoveRange \/ ScannerReport)
            /\ scan_pc = "scan_blocks"
                    => with_blocks(blocks, scan_range.start, RangeLen(scan_range)).tag
                           \in {"Ok", "BlockNotFound"}
            /\ DownloaderBlocked =>
                    /\ Len(channel) = CHUNK_CHANNEL_CAPACITY
                    /\ scanner = Pending
                    /\ ~ScannerBlocked
            /\ ScannerBlocked =>
                    /\ channel = << >>
                    /\ downloader = Pending
                    /\ ~DownloaderBlocked
    /\ (PipelineRunning /\ try_join # Pending) => ENABLED (VerifyJoined \/ RangeJoined)

\* A step of one of the two tasks
TaskStep ==
    \/ download_pc' # download_pc
    \/ scan_pc' # scan_pc
    \/ stream_next' # stream_next
    \/ downloader' # downloader
    \/ scanner' # scanner

C39_StepsWithinTotalAndMonotonic ==
    /\ [](sync_status.current_step <= sync_status.total_steps)
    /\ [](scanner_status.some =>
            scanner_status.data.current_step <= scanner_status.data.total_steps)
    /\ [][sync_status'.current_step >= sync_status.current_step]_vars
    /\ [][(scanner_status.some /\ scanner_status'.some) =>
            scanner_status'.data.current_step >= scanner_status.data.current_step]_vars
    /\ [][scanner_status'.some =>
            scanner_status'.data.current_step >= sync_status.current_step]_vars
    /\ [][sync_status'.current_step # sync_status.current_step =>
            /\ scanner_status.some
            /\ sync_status'.current_step = scanner_status.data.current_step]_vars

\* C39 happens: after a rewind made the wallet store change its priorities and sync()
\* start over, the scanner has reported a status for a chunk of the new pass, with
\* steps of the first pass counted in it and steps still to go.
C39_Witness ==
    /\ truncations # << >>
    /\ scan_pc = "recv"
    /\ scanner_status.some
    /\ scanner_status.data.current_step > sync_status.current_step
    /\ sync_status.current_step > 0
    /\ scanner_status.data.current_step < scanner_status.data.total_steps
    /\ scanner_status_calls >= 2

=============================================================================
